---- MODULE Spec2Model ----
(***************************************************************************)
(* AuroraHeart interface core: the multi-tab editor workspace of the App   *)
(* component (tabs, activeTabIndex, debounced undo history, async open and *)
(* save), its search-and-replace panel, and the terminal sessions of       *)
(* Terminal.jsx.                                                           *)
(*                                                                         *)
(* React semantics that the model keeps:                                   *)
(*  - a synchronous event handler runs against the state of the latest     *)
(*    render, and is one atomic step;                                      *)
(*  - the continuation of an await, and a setTimeout callback, run against *)
(*    the `tabs` / `activeTabIndex` constants of the render in which the   *)
(*    handler was invoked; those captured values are part of the state;    *)
(*  - the search useEffect runs after the render that commits a step, when *)
(*    one of its dependencies changed, before the next event is handled.   *)
(*                                                                         *)
(* A JavaScript string is the sequence of its UTF-16 code units, each      *)
(* named by a TLA+ string.                                                 *)
(***************************************************************************)
EXTENDS Integers, Sequences, FiniteSets, TLC

\* ---------------------------------------------------------------- bounds
Paths == {"p1", "p2", "p3"}
Contents == {<<"a">>, <<"b">>}
\* asynchronous requests (edits with their timer, opens, saves) issued in a run
MaxRequests == 3
\* undo steps taken in a row in the runs that start from a long history
MaxRedoDepth == 3
\* Terminal component mounts in a run
MaxInstances == 2
\* terminal tabs spawned in a run
MaxTerminals == 3
\* chunks typed by the user plus output, resize and error events, in a run
MaxTermEvents == 2

\* replacements made from the search panel in the runs over one buffer
MaxSearchEdits == 1

\* program constant: `.slice(-50)` of the history stacks
UndoLimit == 50

VARIABLES
  tabs,            \* useState([]): sequence of tab records
  activeTabIndex,  \* useState(-1): 0-based index, -1 when none
  timer,           \* undoDebounceTimer.current: pending callback closure
  pendingOpens,    \* open_file / read_file_by_path awaits in flight
  pendingSaves,    \* save_file awaits in flight
  nRequests,       \* number of edits, opens and saves issued so far
  lastOp,          \* the editor handler that ran last (history variable)
  terminals,       \* TerminalPanel useState([]): ids of the terminal tabs
  activeTerminal,  \* TerminalPanel useState(null): 0 stands for null
  isCollapsed,     \* TerminalPanel useState(false)
  nextTermId,      \* the next `term-${Date.now()}` id
  nTermEvents,     \* chunks typed and events emitted so far
  insts,           \* the Terminal component instances, in mount order
  showSearch,          \* useState(false)
  searchQuery,         \* useState(''): sequence of code units
  replaceText,         \* useState('')
  searchCaseSensitive, \* useState(false)
  searchRegex,         \* useState(false)
  searchMatches,       \* useState([]): sequence of [index, length], 0-based
  currentMatchIndex,   \* useState(-1)
  keyShowSearch,       \* the showSearch the registered keydown handler closes over
  regexScan            \* the regex loop of the search effect: whether it is running,
                       \* regex.lastIndex and the local array `matches`

searchInputs == <<showSearch, searchQuery, replaceText, searchCaseSensitive, searchRegex>>

searchVars == <<showSearch, searchQuery, replaceText, searchCaseSensitive, searchRegex,
                searchMatches, currentMatchIndex, keyShowSearch, regexScan>>

editorVars == <<tabs, activeTabIndex, timer, pendingOpens, pendingSaves, nRequests,
                searchVars>>

termVars == <<terminals, activeTerminal, isCollapsed, nextTermId, nTermEvents, insts>>

vars == <<tabs, activeTabIndex, timer, pendingOpens, pendingSaves, nRequests, lastOp,
          terminals, activeTerminal, isCollapsed, nextTermId, nTermEvents, insts,
          showSearch, searchQuery, replaceText, searchCaseSensitive, searchRegex,
          searchMatches, currentMatchIndex, keyShowSearch, regexScan>>

NoTimer == [set |-> FALSE]

\* no search effect is inside its regex loop
NoScan == [running |-> FALSE, lastIndex |-> 0, matches |-> <<>>]

\* ------------------------------------------------------- helper operators
Last(s) == s[Len(s)]

Front(s) == SubSeq(s, 1, Len(s) - 1)

\* mutant of SliceLast: slice(0, n), the first n elements
SliceLast_KeepsFirst(s, n) == IF Len(s) <= n THEN s ELSE SubSeq(s, 1, n)

\* Array.prototype.slice(-n): the last n elements
SliceLast(s, n) == IF Len(s) <= n THEN s ELSE SubSeq(s, Len(s) - n + 1, Len(s))

\* [...stack, x].slice(-50)
PushCapped(stack, x) == SliceLast(Append(stack, x), UndoLimit)

\* JavaScript % (remainder truncated toward zero)
JsRem(a, n) == IF a >= 0 THEN a % n ELSE 0 - ((0 - a) % n)

\* tabs.filter((_, i) => i !== index), index 0-based
RemoveAt(s, index) ==
  [k \in 1..(Len(s) - (IF index >= 0 /\ index < Len(s) THEN 1 ELSE 0)) |->
     IF k <= index THEN s[k] ELSE s[k + 1]]

\* const activeTab = activeTabIndex >= 0 ? tabs[activeTabIndex] : null
HasActiveTab(ts, ai) == ai >= 0 /\ ai < Len(ts)

ActiveTabOf(ts, ai) == ts[ai + 1]

\* tabs.findIndex(tab => tab.path === path), 0-based, -1 when absent
FindIndex(ts, path) ==
  IF \E k \in 1..Len(ts) : ts[k].path = path
  THEN (CHOOSE k \in 1..Len(ts) :
          ts[k].path = path /\ \A j \in 1..(k - 1) : ts[j].path # path) - 1
  ELSE -1

NewTab(path, content) ==
  [path |-> path, content |-> content, isModified |-> FALSE,
   undoStack |-> <<>>, redoStack |-> <<>>]

\* newTabs = [...ts]; newTabs[i] = t   (i 0-based, within range)
SetAt(ts, i, t) == [ts EXCEPT ![i + 1] = t]

PathsOf(ts) == {ts[k].path : k \in 1..Len(ts)}

Op(name, i) == [op |-> name, idx |-> i]

\* ---------------------------------------------------------- search engine
\* const editorText = activeTab?.content || ''
EditorText(ts, ai) == IF HasActiveTab(ts, ai) THEN ActiveTabOf(ts, ai).content ELSE <<>>

\* String.prototype.substring(a, b): arguments clamped to [0, length] and
\* swapped when a > b
Substring(s, a, b) ==
  LET x == IF a < 0 THEN 0 ELSE IF a > Len(s) THEN Len(s) ELSE a
      y == IF b < 0 THEN 0 ELSE IF b > Len(s) THEN Len(s) ELSE b
  IN IF x <= y THEN SubSeq(s, x + 1, y) ELSE SubSeq(s, y + 1, x)

\* String.prototype.substring(a)
SubstringFrom(s, a) == Substring(s, a, Len(s))

\* mutant of LowerOf: no case folding
LowerOf_Identity(ch) == <<ch>>

\* toLowerCase of one code unit.  It is the full Unicode mapping: U+0130
\* ("Idot", capital I with dot above) becomes the two units "i" and U+0307
\* ("dot", the combining dot above).
LowerOf(ch) ==
  CASE ch = "A" -> <<"a">>
    [] ch = "B" -> <<"b">>
    [] ch = "Idot" -> <<"i", "dot">>
    [] OTHER -> <<ch>>

RECURSIVE ToLowerCase(_)
\* String.prototype.toLowerCase
ToLowerCase(s) == IF s = <<>> THEN <<>> ELSE LowerOf(Head(s)) \o ToLowerCase(Tail(s))

\* String.prototype.indexOf(query, from) for 0 <= from: the least position
\* at or after `from` where query occurs, -1 when there is none
IndexOf(text, query, from) ==
  LET hits == {k \in from..(Len(text) - Len(query)) :
                 SubSeq(text, k + 1, k + Len(query)) = query}
  IN IF hits = {} THEN -1 ELSE CHOOSE k \in hits : \A j \in hits : k <= j

RECURSIVE ScanLiteral(_, _, _, _)
\* the `while (index !== -1)` loop of the literal search; `index` is the hit
\* just found and `length` is searchQuery.length
ScanLiteral(searchText, query, index, length) ==
  IF index = -1 THEN <<>>
  ELSE <<[index |-> index, length |-> length]>>
       \o ScanLiteral(searchText, query, IndexOf(searchText, query, index + 1), length)

\* the literal branch of the search effect
LiteralMatches(q, text, caseSensitive) ==
  LET searchText == IF caseSensitive THEN text ELSE ToLowerCase(text)
      query == IF caseSensitive THEN q ELSE ToLowerCase(q)
  IN ScanLiteral(searchText, query, IndexOf(searchText, query, 0), Len(q))

\* new RegExp(searchQuery, flags) throws a SyntaxError on an unterminated
\* group; "(" is the only pattern metacharacter among the code units used
RegexCompiles(q) == \A k \in 1..Len(q) : q[k] # "("

\* Canonicalize under the i flag: toUpperCase of the single code unit
Canonicalize(ch, caseSensitive) ==
  IF caseSensitive THEN ch
  ELSE CASE ch = "a" -> "A"
         [] ch = "b" -> "B"
         [] ch = "i" -> "I"
         [] OTHER -> ch

RECURSIVE ExecLoop(_, _, _, _)
\* the `while ((match = regex.exec(editorText)) !== null)` loop for a pattern
\* of literal code units: the leftmost match at or after lastIndex, after
\* which lastIndex is the end of that match
ExecLoop(text, q, lastIndex, caseSensitive) ==
  LET hits == {k \in lastIndex..(Len(text) - Len(q)) :
                 \A j \in 1..Len(q) :
                   Canonicalize(text[k + j], caseSensitive) = Canonicalize(q[j], caseSensitive)}
  IN IF hits = {} THEN <<>>
     ELSE LET k == CHOOSE h \in hits : \A j \in hits : h <= j
          IN <<[index |-> k, length |-> Len(q)]>>
             \o ExecLoop(text, q, k + Len(q), caseSensitive)

\* the longest run of code units equal to ch (under the flags) at pos
RunLength(text, ch, pos, caseSensitive) ==
  CHOOSE n \in 0..(Len(text) - pos) :
    /\ \A j \in 1..n :
         Canonicalize(text[pos + j], caseSensitive) = Canonicalize(ch, caseSensitive)
    /\ \/ n = Len(text) - pos
       \/ Canonicalize(text[pos + n + 1], caseSensitive) # Canonicalize(ch, caseSensitive)

RECURSIVE MatchFrom(_, _, _, _, _)
RECURSIVE StarFrom(_, _, _, _, _, _)
\* the atom q[i] followed by "*": n repetitions are tried first, then fewer
\* (greedy with backtracking); the end of the match or -1
StarFrom(text, q, i, pos, n, caseSensitive) ==
  LET end == MatchFrom(text, q, i + 2, pos + n, caseSensitive)
  IN IF end # -1 THEN end
     ELSE IF n = 0 THEN -1
     ELSE StarFrom(text, q, i, pos, n - 1, caseSensitive)

\* the matcher of a pattern made of code units, each optionally followed by
\* "*": the end of the match of q[i..] that starts at pos, or -1
MatchFrom(text, q, i, pos, caseSensitive) ==
  IF i > Len(q) THEN pos
  ELSE IF i < Len(q) /\ q[i + 1] = "*"
  THEN StarFrom(text, q, i, pos, RunLength(text, q[i], pos, caseSensitive), caseSensitive)
  ELSE IF pos < Len(text)
          /\ Canonicalize(text[pos + 1], caseSensitive) = Canonicalize(q[i], caseSensitive)
  THEN MatchFrom(text, q, i + 1, pos + 1, caseSensitive)
  ELSE -1

\* regex.exec(editorText) of a global regex: the leftmost match that starts
\* at or after lastIndex, and the end of that match, which exec stores in
\* regex.lastIndex; index -1 stands for null (lastIndex is then reset to 0)
RegExpExec(text, q, lastIndex, caseSensitive) ==
  LET starts == {k \in lastIndex..Len(text) : MatchFrom(text, q, 1, k, caseSensitive) # -1}
  IN IF starts = {} THEN [index |-> -1, end |-> 0]
     ELSE LET k == CHOOSE h \in starts : \A j \in starts : h <= j
          IN [index |-> k, end |-> MatchFrom(text, q, 1, k, caseSensitive)]

\* what one run of the search effect writes: searchMatches and
\* currentMatchIndex
SearchResult(q, text, caseSensitive, regex, show) ==
  IF q = <<>> \/ text = <<>> \/ ~show
  THEN [matches |-> <<>>, index |-> -1]
  ELSE IF regex /\ ~RegexCompiles(q)
  THEN [matches |-> <<>>, index |-> -1]
  ELSE LET matches == IF regex THEN ExecLoop(text, q, 0, caseSensitive)
                      ELSE LiteralMatches(q, text, caseSensitive)
       IN [matches |-> matches, index |-> IF Len(matches) > 0 THEN 0 ELSE -1]

\* The keydown useEffect, deps [tabs, activeTabIndex]: when one of them
\* changed in the step, handleKeyDown is registered again and closes over
\* the showSearch of the new render; otherwise the old handler stays.
keyDownEffect ==
  keyShowSearch' = IF <<tabs', activeTabIndex'>> # <<tabs, activeTabIndex>>
                   THEN showSearch' ELSE keyShowSearch

\* mutant of searchEffect: the catch block of an invalid pattern is empty, so
\* searchMatches and currentMatchIndex stay as they were
searchEffect_EmptyCatch(handlerIndex) ==
  LET result == SearchResult(searchQuery', EditorText(tabs', activeTabIndex'),
                             searchCaseSensitive', searchRegex', showSearch')
      thrown == /\ searchQuery' # <<>>
                /\ EditorText(tabs', activeTabIndex') # <<>>
                /\ showSearch'
                /\ searchRegex'
                /\ ~RegexCompiles(searchQuery')
  IN IF <<searchQuery', EditorText(tabs', activeTabIndex'),
          searchCaseSensitive', searchRegex', showSearch'>>
        # <<searchQuery, EditorText(tabs, activeTabIndex),
            searchCaseSensitive, searchRegex, showSearch>>
        /\ ~thrown
     THEN /\ searchMatches' = result.matches
          /\ currentMatchIndex' = result.index
          /\ keyDownEffect
          /\ regexScan' = NoScan
     ELSE /\ searchMatches' = searchMatches
          /\ currentMatchIndex' = handlerIndex
          /\ keyDownEffect
          /\ regexScan' = NoScan

\* The effects after the render that commits a step.  The search useEffect
\* runs when one of [searchQuery, editorText, searchCaseSensitive,
\* searchRegex, showSearch] changed; otherwise currentMatchIndex is what the
\* handler set.  The keydown useEffect follows it.
searchEffect(handlerIndex) ==
  LET result == SearchResult(searchQuery', EditorText(tabs', activeTabIndex'),
                             searchCaseSensitive', searchRegex', showSearch')
  IN IF <<searchQuery', EditorText(tabs', activeTabIndex'),
          searchCaseSensitive', searchRegex', showSearch'>>
        # <<searchQuery, EditorText(tabs, activeTabIndex),
            searchCaseSensitive, searchRegex, showSearch>>
     THEN /\ searchMatches' = result.matches
          /\ currentMatchIndex' = result.index
          /\ keyDownEffect
          /\ regexScan' = NoScan
     ELSE /\ searchMatches' = searchMatches
          /\ currentMatchIndex' = handlerIndex
          /\ keyDownEffect
          /\ regexScan' = NoScan

\* the render after a handler that sets none of the search panel's state
editorRender ==
  /\ UNCHANGED searchInputs
  /\ searchEffect(currentMatchIndex)

\* ------------------------------------------------------------------ Init
InitTerminalPanel ==
  /\ terminals = <<>>
  /\ activeTerminal = 0
  /\ isCollapsed = FALSE
  /\ nextTermId = 1
  /\ nTermEvents = 0
  /\ insts = <<>>

InitSearchPanel ==
  /\ showSearch = FALSE
  /\ keyShowSearch = FALSE
  /\ regexScan = NoScan
  /\ searchQuery = <<>>
  /\ replaceText = <<>>
  /\ searchCaseSensitive = FALSE
  /\ searchRegex = FALSE
  /\ searchMatches = <<>>
  /\ currentMatchIndex = -1

Init ==
  /\ tabs = <<>>
  /\ activeTabIndex = -1
  /\ timer = NoTimer
  /\ pendingOpens = {}
  /\ pendingSaves = {}
  /\ nRequests = 0
  /\ lastOp = Op("init", -1)
  /\ InitTerminalPanel
  /\ InitSearchPanel

\* --------------------------------------------------------------- opening
\* handleOpenFile up to `await invoke('open_file')`
handleOpenFile ==
  /\ nRequests < MaxRequests
  /\ nRequests' = nRequests + 1
  /\ pendingOpens' = pendingOpens \cup {[kind |-> "dialog", tabs |-> tabs, path |-> "none"]}
  /\ lastOp' = Op("openDialog", -1)
  /\ UNCHANGED termVars
  /\ UNCHANGED <<tabs, activeTabIndex, timer, pendingSaves>>
  /\ editorRender

\* the state written after a successful read, from the captured `tabs`
OpenedTabs(captured, path, content) == Append(captured, NewTab(path, content))

\* continuation of handleOpenFile: the dialog returned {path, content}
handleOpenFileDone(po, path, content) ==
  /\ po \in pendingOpens /\ po.kind = "dialog"
  /\ pendingOpens' = pendingOpens \ {po}
  /\ LET existingTabIndex == FindIndex(po.tabs, path) IN
       IF existingTabIndex >= 0
       THEN /\ activeTabIndex' = existingTabIndex
            /\ tabs' = tabs
       ELSE /\ tabs' = OpenedTabs(po.tabs, path, content)
            /\ activeTabIndex' = Len(po.tabs)
  /\ lastOp' = Op("openDialogDone", -1)
  /\ UNCHANGED termVars
  /\ UNCHANGED <<timer, pendingSaves, nRequests>>
  /\ editorRender

\* handleFileClick up to `await invoke('read_file_by_path')`
handleFileClick(path) ==
  LET existingTabIndex == FindIndex(tabs, path) IN
  IF existingTabIndex >= 0
  THEN /\ activeTabIndex' = existingTabIndex
       /\ lastOp' = Op("clickOpen", existingTabIndex)
       /\ UNCHANGED termVars
       /\ UNCHANGED <<tabs, timer, pendingOpens, pendingSaves, nRequests>>
       /\ editorRender
  ELSE /\ nRequests < MaxRequests
       /\ nRequests' = nRequests + 1
       /\ pendingOpens' = pendingOpens \cup {[kind |-> "click", tabs |-> tabs, path |-> path]}
       /\ lastOp' = Op("clickRead", -1)
       /\ UNCHANGED termVars
       /\ UNCHANGED <<tabs, activeTabIndex, timer, pendingSaves>>
       /\ editorRender

\* continuation of handleFileClick: the read returned the content
handleFileClickDone(po, content) ==
  /\ po \in pendingOpens /\ po.kind = "click"
  /\ pendingOpens' = pendingOpens \ {po}
  /\ tabs' = OpenedTabs(po.tabs, po.path, content)
  /\ activeTabIndex' = Len(po.tabs)
  /\ lastOp' = Op("clickReadDone", -1)
  /\ UNCHANGED termVars
  /\ UNCHANGED <<timer, pendingSaves, nRequests>>
  /\ editorRender

\* mutant of handleOpenFailed: the catch block writes back the tab list the
\* handler captured
handleOpenFailed_WritesCaptured(po) ==
  /\ po \in pendingOpens
  /\ pendingOpens' = pendingOpens \ {po}
  /\ tabs' = po.tabs
  /\ lastOp' = Op("openFailed", -1)
  /\ UNCHANGED termVars
  /\ UNCHANGED <<activeTabIndex, timer, pendingSaves, nRequests>>
  /\ editorRender

\* the await rejected (read failure), or the dialog was dismissed (null)
handleOpenFailed(po) ==
  /\ po \in pendingOpens
  /\ pendingOpens' = pendingOpens \ {po}
  /\ lastOp' = Op("openFailed", -1)
  /\ UNCHANGED termVars
  /\ UNCHANGED <<tabs, activeTabIndex, timer, pendingSaves, nRequests>>
  /\ editorRender

\* ---------------------------------------------------------------- saving
\* handleSaveFile up to `await invoke('save_file')`; the Save button and
\* Ctrl+S are enabled only for a modified active tab
handleSaveFile ==
  /\ HasActiveTab(tabs, activeTabIndex)
  /\ ActiveTabOf(tabs, activeTabIndex).isModified
  /\ nRequests < MaxRequests
  /\ nRequests' = nRequests + 1
  /\ pendingSaves' = pendingSaves \cup {[tabs |-> tabs, idx |-> activeTabIndex]}
  /\ lastOp' = Op("save", activeTabIndex)
  /\ UNCHANGED termVars
  /\ UNCHANGED <<tabs, activeTabIndex, timer, pendingOpens>>
  /\ editorRender

\* mutant of SavedTabs: the flag is not cleared
SavedTabs_KeepsModified(captured, idx) ==
  SetAt(captured, idx, ActiveTabOf(captured, idx))

\* newTabs = [...tabs]; newTabs[activeTabIndex] = {...activeTab, isModified: false}
SavedTabs(captured, idx) ==
  SetAt(captured, idx, [ActiveTabOf(captured, idx) EXCEPT !.isModified = FALSE])

\* continuation of handleSaveFile after the write succeeded
handleSaveFileDone(ps) ==
  /\ ps \in pendingSaves
  /\ pendingSaves' = pendingSaves \ {ps}
  /\ tabs' = SavedTabs(ps.tabs, ps.idx)
  /\ lastOp' = Op("saveDone", ps.idx)
  /\ UNCHANGED termVars
  /\ UNCHANGED <<activeTabIndex, timer, pendingOpens, nRequests>>
  /\ editorRender

\* the write rejected: console.error only
handleSaveFileFailed(ps) ==
  /\ ps \in pendingSaves
  /\ pendingSaves' = pendingSaves \ {ps}
  /\ lastOp' = Op("saveFailed", ps.idx)
  /\ UNCHANGED termVars
  /\ UNCHANGED <<tabs, activeTabIndex, timer, pendingOpens, nRequests>>
  /\ editorRender

\* --------------------------------------------------------------- closing
\* mutant of ActiveAfterClose: the `index < activeTabIndex` branch is missing
ActiveAfterClose_NoShift(index, active, newLen) ==
  IF index = active
  THEN IF newLen = 0 THEN -1
       ELSE IF index >= newLen THEN newLen - 1
       ELSE index
  ELSE active

\* mutant of ActiveAfterClose: closing the active tab always steps to the
\* previous one
ActiveAfterClose_PrefersPrevious(index, active, newLen) ==
  IF index = active
  THEN IF newLen = 0 THEN -1
       ELSE IF index > 0 THEN index - 1
       ELSE index
  ELSE IF index < active THEN active - 1
  ELSE active

\* the setActiveTabIndex branch of handleCloseTab; newLen = newTabs.length
ActiveAfterClose(index, active, newLen) ==
  IF index = active
  THEN IF newLen = 0 THEN -1
       ELSE IF index >= newLen THEN newLen - 1
       ELSE index
  ELSE IF index < active THEN active - 1
  ELSE active

\* handleCloseTab(index): the close button of tab `index`, or Ctrl+W with
\* index = activeTabIndex (guarded there by activeTabIndex >= 0)
handleCloseTab(index) ==
  /\ index >= 0
  /\ index < Len(tabs) \/ index = activeTabIndex
  /\ tabs' = RemoveAt(tabs, index)
  /\ activeTabIndex' = ActiveAfterClose(index, activeTabIndex, Len(RemoveAt(tabs, index)))
  /\ lastOp' = Op(IF index = activeTabIndex THEN "closeActive" ELSE "closeOther", index)
  /\ UNCHANGED termVars
  /\ UNCHANGED <<timer, pendingOpens, pendingSaves, nRequests>>
  /\ editorRender

\* ------------------------------------------------------------ navigation
\* onClick of a tab, and Ctrl+1..9 with tabIndex < tabs.length
selectTab(index) ==
  /\ index >= 0 /\ index < Len(tabs)
  /\ activeTabIndex' = index
  /\ lastOp' = Op("select", index)
  /\ UNCHANGED termVars
  /\ UNCHANGED <<tabs, timer, pendingOpens, pendingSaves, nRequests>>
  /\ editorRender

\* Ctrl+Tab
nextTab ==
  /\ Len(tabs) > 0
  /\ activeTabIndex' = JsRem(activeTabIndex + 1, Len(tabs))
  /\ lastOp' = Op("nextTab", -1)
  /\ UNCHANGED termVars
  /\ UNCHANGED <<tabs, timer, pendingOpens, pendingSaves, nRequests>>
  /\ editorRender

\* Ctrl+Shift+Tab
previousTab ==
  /\ Len(tabs) > 0
  /\ activeTabIndex' = JsRem(activeTabIndex - 1 + Len(tabs), Len(tabs))
  /\ lastOp' = Op("previousTab", -1)
  /\ UNCHANGED termVars
  /\ UNCHANGED <<tabs, timer, pendingOpens, pendingSaves, nRequests>>
  /\ editorRender

\* --------------------------------------------------------------- editing
\* mutant of EditedTab: isModified is left as it was
EditedTab_KeepsFlag(tab, newContent) == [tab EXCEPT !.content = newContent]

\* the synchronous part of handleTabContentChange: the tab written at once
EditedTab(tab, newContent) ==
  [tab EXCEPT !.content = newContent, !.isModified = TRUE]

\* mutant of TabContentChange: a pending timer is left in place and no new
\* one is scheduled
TabContentChange_KeepsPendingTimer(newContent) ==
  /\ HasActiveTab(tabs, activeTabIndex)
  /\ nRequests < MaxRequests
  /\ nRequests' = nRequests + 1
  /\ tabs' = SetAt(tabs, activeTabIndex,
                   EditedTab(ActiveTabOf(tabs, activeTabIndex), newContent))
  /\ timer' = IF timer.set THEN timer
              ELSE [set |-> TRUE, tabs |-> tabs, idx |-> activeTabIndex,
                    newContent |-> newContent]
  /\ UNCHANGED <<activeTabIndex, pendingOpens, pendingSaves>>

\* The body of handleTabContentChange(newContent), as called by the textarea
\* onChange, handleReplace and handleReplaceAll.  The previous timer is
\* cleared and a new one is set whose callback closes over this render's
\* tabs and activeTabIndex.
TabContentChange(newContent) ==
  /\ HasActiveTab(tabs, activeTabIndex)
  /\ nRequests < MaxRequests
  /\ nRequests' = nRequests + 1
  /\ tabs' = SetAt(tabs, activeTabIndex,
                   EditedTab(ActiveTabOf(tabs, activeTabIndex), newContent))
  /\ timer' = [set |-> TRUE, tabs |-> tabs, idx |-> activeTabIndex,
               newContent |-> newContent]
  /\ UNCHANGED <<activeTabIndex, pendingOpens, pendingSaves>>

\* textarea onChange
handleTabContentChange(newContent) ==
  /\ TabContentChange(newContent)
  /\ lastOp' = Op("edit", activeTabIndex)
  /\ UNCHANGED termVars
  /\ editorRender

\* mutant of CommittedTabs: the commit leaves redoStack as it was
CommittedTabs_KeepsRedo(captured, idx, newContent) ==
  LET tab == ActiveTabOf(captured, idx)
      previousContent == tab.content
      newUndoStack == PushCapped(tab.undoStack, previousContent)
  IN SetAt(captured, idx, [tab EXCEPT !.undoStack = newUndoStack])

\* the tabs written by the timer callback, from its captured values
CommittedTabs(captured, idx, newContent) ==
  LET tab == ActiveTabOf(captured, idx)
      previousContent == tab.content
      newUndoStack == PushCapped(tab.undoStack, previousContent)
  IN SetAt(captured, idx, [tab EXCEPT !.undoStack = newUndoStack, !.redoStack = <<>>])

\* the setTimeout callback of handleTabContentChange, 300ms after the edit
timerFires ==
  /\ timer.set
  /\ timer' = NoTimer
  /\ IF ActiveTabOf(timer.tabs, timer.idx).content # timer.newContent
     THEN tabs' = CommittedTabs(timer.tabs, timer.idx, timer.newContent)
     ELSE tabs' = tabs
  /\ lastOp' = Op("timer", timer.idx)
  /\ UNCHANGED termVars
  /\ UNCHANGED <<activeTabIndex, pendingOpens, pendingSaves, nRequests>>
  /\ editorRender

\* ------------------------------------------------------------ undo / redo
\* mutant of UndoneTab: the popped snapshot, not the current content, is
\* pushed on redoStack
UndoneTab_PushesPopped(tab) ==
  [tab EXCEPT !.content = Last(tab.undoStack),
              !.undoStack = Front(tab.undoStack),
              !.redoStack = PushCapped(tab.redoStack, Last(tab.undoStack)),
              !.isModified = TRUE]

\* the tab written by handleUndo
UndoneTab(tab) ==
  [tab EXCEPT !.content = Last(tab.undoStack),
              !.undoStack = Front(tab.undoStack),
              !.redoStack = PushCapped(tab.redoStack, tab.content),
              !.isModified = TRUE]

\* the tab written by handleRedo
RedoneTab(tab) ==
  [tab EXCEPT !.content = Last(tab.redoStack),
              !.redoStack = Front(tab.redoStack),
              !.undoStack = PushCapped(tab.undoStack, tab.content),
              !.isModified = TRUE]

\* Ctrl+Z
handleUndo ==
  /\ HasActiveTab(tabs, activeTabIndex)
  /\ Len(ActiveTabOf(tabs, activeTabIndex).undoStack) # 0
  /\ tabs' = SetAt(tabs, activeTabIndex, UndoneTab(ActiveTabOf(tabs, activeTabIndex)))
  /\ lastOp' = Op("undo", activeTabIndex)
  /\ UNCHANGED termVars
  /\ UNCHANGED <<activeTabIndex, timer, pendingOpens, pendingSaves, nRequests>>
  /\ editorRender

\* Ctrl+Y / Ctrl+Shift+Z
handleRedo ==
  /\ HasActiveTab(tabs, activeTabIndex)
  /\ Len(ActiveTabOf(tabs, activeTabIndex).redoStack) # 0
  /\ tabs' = SetAt(tabs, activeTabIndex, RedoneTab(ActiveTabOf(tabs, activeTabIndex)))
  /\ lastOp' = Op("redo", activeTabIndex)
  /\ UNCHANGED termVars
  /\ UNCHANGED <<activeTabIndex, timer, pendingOpens, pendingSaves, nRequests>>
  /\ editorRender

\* ------------------------------------------------- search panel handlers
\* Ctrl+F and Ctrl+H
openSearch ==
  /\ showSearch' = TRUE
  /\ lastOp' = Op("searchInput", -1)
  /\ UNCHANGED termVars
  /\ UNCHANGED <<tabs, activeTabIndex, timer, pendingOpens, pendingSaves, nRequests>>
  /\ UNCHANGED <<searchQuery, replaceText, searchCaseSensitive, searchRegex>>
  /\ searchEffect(currentMatchIndex)

\* the close button of the search panel
closeSearch ==
  /\ showSearch
  /\ showSearch' = FALSE
  /\ lastOp' = Op("searchInput", -1)
  /\ UNCHANGED termVars
  /\ UNCHANGED <<tabs, activeTabIndex, timer, pendingOpens, pendingSaves, nRequests>>
  /\ UNCHANGED <<searchQuery, replaceText, searchCaseSensitive, searchRegex>>
  /\ searchEffect(currentMatchIndex)

\* Escape: the handler tests the showSearch it closed over; idx of lastOp
\* records whether it called preventDefault
keyEscape ==
  /\ showSearch' = IF keyShowSearch THEN FALSE ELSE showSearch
  /\ lastOp' = Op(IF showSearch THEN "escapeSearchOpen" ELSE "escapeSearchClosed",
                  IF keyShowSearch THEN 1 ELSE 0)
  /\ UNCHANGED termVars
  /\ UNCHANGED <<tabs, activeTabIndex, timer, pendingOpens, pendingSaves, nRequests>>
  /\ UNCHANGED <<searchQuery, replaceText, searchCaseSensitive, searchRegex>>
  /\ searchEffect(currentMatchIndex)

\* a key that matches no branch of handleKeyDown
keyOther ==
  /\ lastOp' = Op("keyOther", 0)
  /\ UNCHANGED termVars
  /\ UNCHANGED <<tabs, activeTabIndex, timer, pendingOpens, pendingSaves, nRequests>>
  /\ editorRender

\* onChange of the Find input
setSearchQuery(q) ==
  /\ showSearch
  /\ searchQuery' = q
  /\ lastOp' = Op("searchInput", -1)
  /\ UNCHANGED termVars
  /\ UNCHANGED <<tabs, activeTabIndex, timer, pendingOpens, pendingSaves, nRequests>>
  /\ UNCHANGED <<showSearch, replaceText, searchCaseSensitive, searchRegex>>
  /\ searchEffect(currentMatchIndex)

\* onChange of the Replace input
setReplaceText(r) ==
  /\ showSearch
  /\ replaceText' = r
  /\ lastOp' = Op("searchInput", -1)
  /\ UNCHANGED termVars
  /\ UNCHANGED <<tabs, activeTabIndex, timer, pendingOpens, pendingSaves, nRequests>>
  /\ UNCHANGED <<showSearch, searchQuery, searchCaseSensitive, searchRegex>>
  /\ searchEffect(currentMatchIndex)

\* onChange of the "Case sensitive" checkbox
setSearchCaseSensitive(checked) ==
  /\ showSearch
  /\ searchCaseSensitive' = checked
  /\ lastOp' = Op("searchInput", -1)
  /\ UNCHANGED termVars
  /\ UNCHANGED <<tabs, activeTabIndex, timer, pendingOpens, pendingSaves, nRequests>>
  /\ UNCHANGED <<showSearch, searchQuery, replaceText, searchRegex>>
  /\ searchEffect(currentMatchIndex)

\* onChange of the "Regex" checkbox
setSearchRegex(checked) ==
  /\ showSearch
  /\ searchRegex' = checked
  /\ lastOp' = Op("searchInput", -1)
  /\ UNCHANGED termVars
  /\ UNCHANGED <<tabs, activeTabIndex, timer, pendingOpens, pendingSaves, nRequests>>
  /\ UNCHANGED <<showSearch, searchQuery, replaceText, searchCaseSensitive>>
  /\ searchEffect(currentMatchIndex)

\* mutant of NextMatchIndex: no wrap-around
NextMatchIndex_NoWrap(index, n) == index + 1

\* (currentMatchIndex + 1) % searchMatches.length
NextMatchIndex(index, n) == JsRem(index + 1, n)

\* (currentMatchIndex - 1 + searchMatches.length) % searchMatches.length
PreviousMatchIndex(index, n) == JsRem(index - 1 + n, n)

\* the Next button (disabled while there is no match)
handleFindNext ==
  /\ showSearch
  /\ Len(searchMatches) # 0
  /\ lastOp' = Op("findNext", currentMatchIndex)
  /\ UNCHANGED termVars
  /\ UNCHANGED <<tabs, activeTabIndex, timer, pendingOpens, pendingSaves, nRequests>>
  /\ UNCHANGED searchInputs
  /\ searchEffect(NextMatchIndex(currentMatchIndex, Len(searchMatches)))

\* the Previous button (disabled while there is no match)
handleFindPrevious ==
  /\ showSearch
  /\ Len(searchMatches) # 0
  /\ lastOp' = Op("findPrevious", currentMatchIndex)
  /\ UNCHANGED termVars
  /\ UNCHANGED <<tabs, activeTabIndex, timer, pendingOpens, pendingSaves, nRequests>>
  /\ UNCHANGED searchInputs
  /\ searchEffect(PreviousMatchIndex(currentMatchIndex, Len(searchMatches)))

\* content.substring(0, match.index) + text + content.substring(match.index + match.length)
Splice(content, match, text) ==
  Substring(content, 0, match.index) \o text
    \o SubstringFrom(content, match.index + match.length)

\* the index handleReplace passes to setCurrentMatchIndex
IndexAfterReplace(index, n) == IF index < n - 1 THEN index ELSE -1

\* the Replace button
handleReplace ==
  /\ showSearch
  /\ HasActiveTab(tabs, activeTabIndex)
  /\ currentMatchIndex >= 0 /\ currentMatchIndex < Len(searchMatches)
  /\ TabContentChange(Splice(EditorText(tabs, activeTabIndex),
                             searchMatches[currentMatchIndex + 1], replaceText))
  /\ lastOp' = Op("replace", currentMatchIndex)
  /\ UNCHANGED termVars
  /\ UNCHANGED searchInputs
  /\ searchEffect(IndexAfterReplace(currentMatchIndex, Len(searchMatches)))

RECURSIVE ReplacedDownTo(_, _, _, _)
\* newContent of the handleReplaceAll loop once the matches numbered
\* Len(matches) down to lo (1-based) have been spliced, last match first
ReplacedDownTo(content, matches, lo, text) ==
  IF lo > Len(matches) THEN content
  ELSE Splice(ReplacedDownTo(content, matches, lo + 1, text), matches[lo], text)

\* the Replace All button
handleReplaceAll ==
  /\ showSearch
  /\ HasActiveTab(tabs, activeTabIndex)
  /\ Len(searchMatches) # 0
  /\ TabContentChange(ReplacedDownTo(EditorText(tabs, activeTabIndex),
                                     searchMatches, 1, replaceText))
  /\ lastOp' = Op("replaceAll", currentMatchIndex)
  /\ UNCHANGED termVars
  /\ UNCHANGED searchInputs
  /\ searchEffect(-1)

\* ------------------------------------------------------------------ Next
Next ==
  \/ handleOpenFile
  \/ \E po \in pendingOpens, p \in Paths, c \in Contents : handleOpenFileDone(po, p, c)
  \/ \E p \in Paths : handleFileClick(p)
  \/ \E po \in pendingOpens, c \in Contents : handleFileClickDone(po, c)
  \/ \E po \in pendingOpens : handleOpenFailed(po)
  \/ handleSaveFile
  \/ \E ps \in pendingSaves : handleSaveFileDone(ps)
  \/ \E ps \in pendingSaves : handleSaveFileFailed(ps)
  \/ \E i \in (0..(Len(tabs) - 1)) \cup {activeTabIndex} : handleCloseTab(i)
  \/ \E i \in 0..(Len(tabs) - 1) : selectTab(i)
  \/ nextTab
  \/ previousTab
  \/ \E c \in Contents : handleTabContentChange(c)
  \/ timerFires
  \/ handleUndo
  \/ handleRedo

Spec == Init /\ [][Next]_vars

\* -------------------------------------------- history at the 50-entry cap
\* One session whose stacks are already long: the state reached after that
\* many committed edits followed by HistShape[2] undos.
HistShapes == {<<50, 0>>, <<49, 0>>, <<49, 1>>, <<48, 2>>, <<48, 1>>}

\* the k-th snapshot of the long history (the oldest one is "a", the rest "b")
HistEntry(k) == IF k = 1 THEN <<"a">> ELSE <<"b">>

InitHist ==
  /\ \E sh \in HistShapes, c \in Contents :
       tabs = << [path |-> "p1", content |-> c, isModified |-> TRUE,
                  undoStack |-> [k \in 1..sh[1] |-> HistEntry(k)],
                  redoStack |-> [k \in 1..sh[2] |-> <<"b">>]] >>
  /\ activeTabIndex = 0
  /\ timer = NoTimer
  /\ pendingOpens = {}
  /\ pendingSaves = {}
  /\ nRequests = 0
  /\ lastOp = Op("init", -1)
  /\ InitTerminalPanel
  /\ InitSearchPanel

\* the user steps back through at most MaxRedoDepth snapshots
UndoWithinDepth ==
  /\ HasActiveTab(tabs, activeTabIndex)
  /\ Len(ActiveTabOf(tabs, activeTabIndex).redoStack) < MaxRedoDepth
  /\ handleUndo

NextHist ==
  \/ \E c \in Contents : handleTabContentChange(c)
  \/ timerFires
  \/ UndoWithinDepth
  \/ handleRedo

SpecHist == InitHist /\ [][NextHist]_vars

\* ------------------------------------------------- search over one buffer
\* One file open in one tab, read by the single request that opened it.
SearchBuffers == {<<"a", "b", "A", "B">>, <<"a", "a", "a">>}

Queries == {<<"A", "b">>, <<"a", "a">>, <<"a">>, <<"(">>}

ReplaceTexts == {<<>>, <<"b">>, <<"a">>, <<"a", "a">>}

InitSearch ==
  /\ \E buffer \in SearchBuffers : tabs = << NewTab("p1", buffer) >>
  /\ activeTabIndex = 0
  /\ timer = NoTimer
  /\ pendingOpens = {}
  /\ pendingSaves = {}
  /\ nRequests = 1
  /\ lastOp = Op("init", -1)
  /\ InitTerminalPanel
  /\ InitSearchPanel

\* the user replaces at most MaxSearchEdits times after the open
ReplaceWithinBudget == nRequests <= MaxSearchEdits /\ handleReplace

ReplaceAllWithinBudget == nRequests <= MaxSearchEdits /\ handleReplaceAll

NextSearch ==
  \/ openSearch
  \/ closeSearch
  \/ \E q \in Queries : setSearchQuery(q)
  \/ \E r \in ReplaceTexts : setReplaceText(r)
  \/ setSearchCaseSensitive(~searchCaseSensitive)
  \/ setSearchRegex(~searchRegex)
  \/ handleFindNext
  \/ handleFindPrevious
  \/ ReplaceWithinBudget
  \/ ReplaceAllWithinBudget
  \/ timerFires
  \/ handleUndo
  \/ handleRedo

SpecSearch == InitSearch /\ [][NextSearch]_vars

\* ------------------------------------------------- bursts of typing
\* One clean session with empty stacks whose content is none of the
\* contents typed afterwards; the user types, undoes and redoes.
BurstBase == <<"a", "b">>

InitBurst ==
  /\ tabs = << NewTab("p1", BurstBase) >>
  /\ activeTabIndex = 0
  /\ timer = NoTimer
  /\ pendingOpens = {}
  /\ pendingSaves = {}
  /\ nRequests = 0
  /\ lastOp = Op("init", -1)
  /\ InitTerminalPanel
  /\ InitSearchPanel

NextBurst ==
  \/ \E c \in Contents : handleTabContentChange(c)
  \/ timerFires
  \/ handleUndo
  \/ handleRedo

SpecBurst == InitBurst /\ [][NextBurst]_vars

\* ------------------------------------------------- two open sessions
\* Two clean files open, the second one active; nRequests counts the edits
\* and saves issued after that.
InitTwoTabs ==
  /\ tabs = << NewTab("p1", <<"a">>), NewTab("p2", <<"a">>) >>
  /\ activeTabIndex = 1
  /\ timer = NoTimer
  /\ pendingOpens = {}
  /\ pendingSaves = {}
  /\ nRequests = 0
  /\ lastOp = Op("init", -1)
  /\ InitTerminalPanel
  /\ InitSearchPanel

NextTwoTabs ==
  \/ \E c \in Contents : handleTabContentChange(c)
  \/ timerFires
  \/ \E i \in 0..(Len(tabs) - 1) : selectTab(i)
  \/ \E i \in 0..(Len(tabs) - 1) : handleCloseTab(i)
  \/ handleSaveFile
  \/ \E ps \in pendingSaves : handleSaveFileDone(ps)
  \/ handleUndo
  \/ handleRedo

SpecTwoTabs == InitTwoTabs /\ [][NextTwoTabs]_vars

\* ------------------------------------------------- the keyboard shortcuts
\* handleKeyDown(e), by the chord pressed; a chord whose handler finds
\* nothing to do (no active tab, empty stack) changes nothing and is left out
Chords == {"Escape", "Ctrl+F", "Ctrl+Z", "Ctrl+Y", "Ctrl+W", "Ctrl+Tab",
           "Ctrl+Shift+Tab", "Ctrl+1", "Ctrl+2", "Ctrl+S", "F1"}

handleKeyDown(chord) ==
  \/ chord = "Escape" /\ keyEscape
  \/ chord = "Ctrl+F" /\ openSearch
  \/ chord = "Ctrl+Z" /\ handleUndo
  \/ chord = "Ctrl+Y" /\ handleRedo
  \/ chord = "Ctrl+W" /\ activeTabIndex >= 0 /\ handleCloseTab(activeTabIndex)
  \/ chord = "Ctrl+Tab" /\ nextTab
  \/ chord = "Ctrl+Shift+Tab" /\ previousTab
  \/ chord = "Ctrl+1" /\ selectTab(0)
  \/ chord = "Ctrl+2" /\ selectTab(1)
  \/ chord = "Ctrl+S" /\ handleSaveFile
  \/ chord = "F1" /\ keyOther

\* the keyboard, the editor textarea, the file tree and the panel's close
\* button
NextKeys ==
  \/ \E chord \in Chords : handleKeyDown(chord)
  \/ closeSearch
  \/ \E p \in Paths : handleFileClick(p)
  \/ \E po \in pendingOpens, c \in Contents : handleFileClickDone(po, c)
  \/ \E c \in Contents : handleTabContentChange(c)
  \/ timerFires
  \/ \E ps \in pendingSaves : handleSaveFileDone(ps)

SpecKeys == Init /\ [][NextKeys]_vars

\* ------------------------------------------- the regex loop, step by step
\* One file open, the search panel open in regex mode; the effect that
\* follows the typing of the pattern has compiled it and stands at the
\* head of `while ((match = regex.exec(editorText)) !== null)`.
ExecBuffers == {<<"a", "b", "a">>, <<"b", "b">>, <<"a", "a", "b">>, <<"A", "b">>}

ExecPatterns == {<<"a">>, <<"a", "b">>, <<"a", "*">>, <<"b", "*">>, <<"a", "*", "b">>}

\* iterations of the loop that are followed
MaxExecIterations == 4

InitExec ==
  /\ \E buffer \in ExecBuffers : tabs = << NewTab("p1", buffer) >>
  /\ activeTabIndex = 0
  /\ timer = NoTimer
  /\ pendingOpens = {}
  /\ pendingSaves = {}
  /\ nRequests = 1
  /\ lastOp = Op("searchInput", -1)
  /\ InitTerminalPanel
  /\ showSearch = TRUE
  /\ keyShowSearch = FALSE
  /\ searchQuery \in ExecPatterns
  /\ replaceText = <<>>
  /\ searchCaseSensitive \in BOOLEAN
  /\ searchRegex = TRUE
  /\ searchMatches = <<>>
  /\ currentMatchIndex = -1
  /\ regexScan = [running |-> TRUE, lastIndex |-> 0, matches |-> <<>>]

\* the match regex.exec returns at the head of the loop
ExecResult ==
  RegExpExec(EditorText(tabs, activeTabIndex), searchQuery, regexScan.lastIndex,
             searchCaseSensitive)

\* one iteration: exec returned a match, which the body pushes
execMatch ==
  /\ regexScan.running
  /\ Len(regexScan.matches) < MaxExecIterations
  /\ ExecResult.index # -1
  /\ regexScan' = [running |-> TRUE, lastIndex |-> ExecResult.end,
                   matches |-> Append(regexScan.matches,
                                      [index |-> ExecResult.index,
                                       length |-> ExecResult.end - ExecResult.index])]
  /\ lastOp' = Op("execMatch", ExecResult.index)
  /\ UNCHANGED termVars
  /\ UNCHANGED <<tabs, activeTabIndex, timer, pendingOpens, pendingSaves, nRequests>>
  /\ UNCHANGED <<searchInputs, searchMatches, currentMatchIndex, keyShowSearch>>

\* exec returned null: the loop ends and the effect stores its result
execDone ==
  /\ regexScan.running
  /\ ExecResult.index = -1
  /\ searchMatches' = regexScan.matches
  /\ currentMatchIndex' = IF Len(regexScan.matches) > 0 THEN 0 ELSE -1
  /\ regexScan' = NoScan
  /\ lastOp' = Op("execDone", Len(regexScan.matches))
  /\ UNCHANGED termVars
  /\ UNCHANGED <<tabs, activeTabIndex, timer, pendingOpens, pendingSaves, nRequests>>
  /\ UNCHANGED <<searchInputs, keyShowSearch>>

NextExec ==
  \/ execMatch
  \/ execDone

SpecExec == InitExec /\ [][NextExec]_vars

\* ------------------------------------------- the MatchSet of a fixed buffer
\* One file open and never edited; the user only drives the search panel.
\* "Idot" is U+0130, whose lower case is two code units long.
MatchBuffers == {<<"a", "b", "A", "B">>, <<"a", "a", "a">>, <<"Idot", "a">>}

InitMatch ==
  /\ \E buffer \in MatchBuffers : tabs = << NewTab("p1", buffer) >>
  /\ activeTabIndex = 0
  /\ timer = NoTimer
  /\ pendingOpens = {}
  /\ pendingSaves = {}
  /\ nRequests = 1
  /\ lastOp = Op("init", -1)
  /\ InitTerminalPanel
  /\ InitSearchPanel

NextMatch ==
  \/ openSearch
  \/ closeSearch
  \/ \E q \in Queries : setSearchQuery(q)
  \/ setSearchCaseSensitive(~searchCaseSensitive)
  \/ setSearchRegex(~searchRegex)

SpecMatch == InitMatch /\ [][NextMatch]_vars

\* ================================================== terminal multiplexer
\* A Terminal component instance.  Its backend process is named by the
\* instance's own number: backendId = 0 stands for backendIdRef.current =
\* null.  capTerminals / capActive are the `terminals` and `activeTerminal`
\* constants of the render that mounted it, which its onClose prop closes over.
\* what xterm.write is given: the n-th output payload of the process, or a
\* message of the component itself
OutputChunk(n) == [kind |-> "output", n |-> n]

Notice(kind) == [kind |-> kind, n |-> 0]

NewInst(term, panelTerminals, panelActive) ==
  [term |-> term, mounted |-> TRUE, pc |-> "spawning", backendId |-> 0,
   listeners |-> {}, unlistenStored |-> FALSE, observer |-> "none",
   proc |-> "none", emitted |-> 0, displayed |-> <<>>,
   typed |-> 0, written |-> <<>>, resized |-> 0, closeCalls |-> 0,
   capTerminals |-> panelTerminals, capActive |-> panelActive]

Cleanup_ClosesWithoutId(inst) ==
  [inst EXCEPT
     !.mounted = FALSE,
     !.listeners = IF inst.unlistenStored THEN {} ELSE @,
     !.observer = IF @ = "observing" THEN "disconnected" ELSE @,
     !.proc = IF inst.backendId # 0 /\ @ = "alive" THEN "killed" ELSE @,
     !.closeCalls = @ + 1]

\* the cleanup function returned by the Terminal effect
Cleanup(inst) ==
  [inst EXCEPT
     !.mounted = FALSE,
     !.listeners = IF inst.unlistenStored THEN {} ELSE @,
     !.observer = IF @ = "observing" THEN "disconnected" ELSE @,
     !.proc = IF inst.backendId # 0 /\ @ = "alive" THEN "killed" ELSE @,
     !.closeCalls = IF inst.backendId # 0 THEN @ + 1 ELSE @]

IsMounted(is, term) == \E i \in 1..Len(is) : is[i].mounted /\ is[i].term = term

NotMounted(is, term) == ~IsMounted(is, term)

\* The commit of a TerminalPanel render: the instances whose tab left the
\* list (or all of them when the panel is collapsed) run their cleanup, and
\* every listed tab without an instance mounts a new one (keyed by term.id).
Reconcile(is, newTerminals, newActive, collapsed) ==
  LET kept == [i \in 1..Len(is) |->
                 IF is[i].mounted
                    /\ (collapsed \/ \A k \in 1..Len(newTerminals) : newTerminals[k] # is[i].term)
                 THEN Cleanup(is[i]) ELSE is[i]]
      toMount == IF collapsed THEN <<>>
                 ELSE SelectSeq(newTerminals, LAMBDA t : NotMounted(kept, t))
  IN kept \o [k \in 1..Len(toMount) |-> NewInst(toMount[k], newTerminals, newActive)]

\* terminals.filter((t) => t.id !== id)
WithoutTerminal(ts, id) == SelectSeq(ts, LAMBDA t : t # id)

\* the activeTerminal written by closeTerminal(id) run against (ts, active);
\* `current` is the state value, kept when setActiveTerminal is not called
ActiveAfterCloseTerminal(ts, active, id, current) ==
  IF active = id
  THEN IF Len(WithoutTerminal(ts, id)) > 0 THEN WithoutTerminal(ts, id)[1] ELSE 0
  ELSE current

\* a panel state change followed by the commit of its render
PanelUpdate(newTerminals, newActive, collapsed) ==
  /\ Len(Reconcile(insts, newTerminals, newActive, collapsed)) <= MaxInstances
  /\ terminals' = newTerminals
  /\ activeTerminal' = newActive
  /\ isCollapsed' = collapsed
  /\ insts' = Reconcile(insts, newTerminals, newActive, collapsed)

\* spawnTerminal(shellType): the "+ New" / "Start Terminal" buttons
spawnTerminal ==
  /\ nextTermId <= MaxTerminals
  /\ nextTermId' = nextTermId + 1
  /\ PanelUpdate(Append(terminals, nextTermId), nextTermId, isCollapsed)
  /\ UNCHANGED nTermEvents
  /\ UNCHANGED <<editorVars, lastOp>>

\* closeTerminal(id) from the tab's close button
closeTerminal(id) ==
  /\ \E k \in 1..Len(terminals) : terminals[k] = id
  /\ PanelUpdate(WithoutTerminal(terminals, id),
                 ActiveAfterCloseTerminal(terminals, activeTerminal, id, activeTerminal),
                 isCollapsed)
  /\ UNCHANGED <<nextTermId, nTermEvents>>
  /\ UNCHANGED <<editorVars, lastOp>>

\* onClick of a terminal tab
setActiveTerminal(id) ==
  /\ \E k \in 1..Len(terminals) : terminals[k] = id
  /\ activeTerminal' = id
  /\ UNCHANGED <<terminals, isCollapsed, nextTermId, nTermEvents, insts>>
  /\ UNCHANGED <<editorVars, lastOp>>

\* the collapse / expand button: {!isCollapsed && ...} unmounts or mounts
\* every Terminal
toggleCollapsed ==
  /\ PanelUpdate(terminals, activeTerminal, ~isCollapsed)
  /\ UNCHANGED <<nextTermId, nTermEvents>>
  /\ UNCHANGED <<editorVars, lastOp>>

\* invoke('spawn_terminal') resolved with the id: first lines of .then
spawnResolved(i) ==
  /\ insts[i].pc = "spawning"
  /\ insts' = [insts EXCEPT ![i].backendId = i, ![i].proc = "alive",
                            ![i].pc = "listenOutput"]
  /\ UNCHANGED <<terminals, activeTerminal, isCollapsed, nextTermId, nTermEvents>>
  /\ UNCHANGED <<editorVars, lastOp>>

\* invoke('spawn_terminal') rejected: the .catch writes the failure
spawnFailed(i) ==
  /\ insts[i].pc = "spawning"
  /\ insts' = [insts EXCEPT ![i].pc = "failed",
                            ![i].displayed = Append(@, Notice("spawnFailed"))]
  /\ UNCHANGED <<terminals, activeTerminal, isCollapsed, nextTermId, nTermEvents>>
  /\ UNCHANGED <<editorVars, lastOp>>

\* one `await listen(...)` of the .then continuation resolved; after the
\* third, the unlisten functions are stored and the resize observer is made
listenResolved(i) ==
  /\ insts[i].pc \in {"listenOutput", "listenClosed", "listenError"}
  /\ insts' =
       [insts EXCEPT ![i] =
          IF insts[i].pc = "listenOutput"
          THEN [@ EXCEPT !.listeners = @ \cup {"output"}, !.pc = "listenClosed"]
          ELSE IF insts[i].pc = "listenClosed"
          THEN [@ EXCEPT !.listeners = @ \cup {"closed"}, !.pc = "listenError"]
          ELSE [@ EXCEPT !.listeners = @ \cup {"error"}, !.pc = "ready",
                         !.unlistenStored = TRUE,
                         !.observer = IF insts[i].mounted THEN "observing" ELSE "idle"]]
  /\ UNCHANGED <<terminals, activeTerminal, isCollapsed, nextTermId, nTermEvents>>
  /\ UNCHANGED <<editorVars, lastOp>>

OnData_NewestFirst(inst) ==
  [inst EXCEPT !.typed = @ + 1,
               !.written = IF inst.backendId # 0 THEN <<inst.typed + 1>> \o @ ELSE @]

\* xterm.onData handler: forwarded only once backendIdRef.current is set
OnData(inst) ==
  [inst EXCEPT !.typed = @ + 1,
               !.written = IF inst.backendId # 0 THEN Append(@, inst.typed + 1) ELSE @]

\* the user types a chunk into the visible terminal
dataHandler(i) ==
  /\ insts[i].mounted
  /\ insts[i].term = activeTerminal
  /\ nTermEvents < MaxTermEvents
  /\ nTermEvents' = nTermEvents + 1
  /\ insts' = [insts EXCEPT ![i] = OnData(@)]
  /\ UNCHANGED <<terminals, activeTerminal, isCollapsed, nextTermId>>
  /\ UNCHANGED <<editorVars, lastOp>>

\* the process produces its next output payload; the output listener, if
\* registered, writes it to the xterm
OnOutput(inst) ==
  [inst EXCEPT !.emitted = @ + 1,
               !.displayed = IF "output" \in inst.listeners
                             THEN Append(@, OutputChunk(inst.emitted + 1)) ELSE @]

\* the backend process emits terminal-<id>-output
outputEvent(i) ==
  /\ insts[i].proc = "alive"
  /\ nTermEvents < MaxTermEvents
  /\ nTermEvents' = nTermEvents + 1
  /\ insts' = [insts EXCEPT ![i] = OnOutput(@)]
  /\ UNCHANGED <<terminals, activeTerminal, isCollapsed, nextTermId>>
  /\ UNCHANGED <<editorVars, lastOp>>

\* handleResize: resize_terminal is invoked with the id of the .then closure
HandleResize(inst) == [inst EXCEPT !.resized = @ + 1]

\* the ResizeObserver calls handleResize
resizeObserved(i) ==
  /\ insts[i].observer = "observing"
  /\ nTermEvents < MaxTermEvents
  /\ nTermEvents' = nTermEvents + 1
  /\ insts' = [insts EXCEPT ![i] = HandleResize(@)]
  /\ UNCHANGED <<terminals, activeTerminal, isCollapsed, nextTermId>>
  /\ UNCHANGED <<editorVars, lastOp>>

\* the backend emits terminal-<id>-error; the error listener writes it
errorEvent(i) ==
  /\ insts[i].proc = "alive"
  /\ nTermEvents < MaxTermEvents
  /\ nTermEvents' = nTermEvents + 1
  /\ insts' = [insts EXCEPT ![i].emitted = @ + 1,
                            ![i].displayed = IF "error" \in insts[i].listeners
                                             THEN Append(@, Notice("error")) ELSE @]
  /\ UNCHANGED <<terminals, activeTerminal, isCollapsed, nextTermId>>
  /\ UNCHANGED <<editorVars, lastOp>>

\* the backend process exits on its own and emits terminal-<id>-closed; the
\* closed listener calls the onClose prop of the mounting render
closedEvent(i) ==
  /\ insts[i].proc = "alive"
  /\ LET exited == [insts EXCEPT ![i].proc = "exited"]
         id == insts[i].term
         newTerminals == WithoutTerminal(insts[i].capTerminals, id)
         newActive == ActiveAfterCloseTerminal(insts[i].capTerminals, insts[i].capActive,
                                               id, activeTerminal)
     IN IF "closed" \in insts[i].listeners
        THEN /\ Len(Reconcile(exited, newTerminals, newActive, isCollapsed)) <= MaxInstances
             /\ terminals' = newTerminals
             /\ activeTerminal' = newActive
             /\ insts' = Reconcile(exited, newTerminals, newActive, isCollapsed)
        ELSE /\ insts' = exited
             /\ UNCHANGED <<terminals, activeTerminal>>
  /\ UNCHANGED <<isCollapsed, nextTermId, nTermEvents>>
  /\ UNCHANGED <<editorVars, lastOp>>

\* at most one tab per Terminal mount the run allows, so that every tab
\* spawned while the panel is expanded can mount
SpawnWithinMounts ==
  /\ nextTermId <= MaxInstances
  /\ spawnTerminal

NextTerm ==
  \/ SpawnWithinMounts
  \/ \E id \in 1..MaxTerminals : closeTerminal(id)
  \/ \E id \in 1..MaxTerminals : setActiveTerminal(id)
  \/ toggleCollapsed
  \/ \E i \in 1..Len(insts) : spawnResolved(i)
  \/ \E i \in 1..Len(insts) : spawnFailed(i)
  \/ \E i \in 1..Len(insts) : listenResolved(i)
  \/ \E i \in 1..Len(insts) : dataHandler(i)
  \/ \E i \in 1..Len(insts) : outputEvent(i)
  \/ \E i \in 1..Len(insts) : resizeObserved(i)
  \/ \E i \in 1..Len(insts) : errorEvent(i)
  \/ \E i \in 1..Len(insts) : closedEvent(i)

SpecTerm == Init /\ [][NextTerm]_vars

\* ------------------------------------------------- one terminal tab
\* The panel right after "Start Terminal": one tab, its Terminal mounted and
\* its spawn call in flight.  Collapsing and expanding the panel remounts it.
InitSession ==
  /\ tabs = <<>>
  /\ activeTabIndex = -1
  /\ timer = NoTimer
  /\ pendingOpens = {}
  /\ pendingSaves = {}
  /\ nRequests = 0
  /\ lastOp = Op("init", -1)
  /\ terminals = <<1>>
  /\ activeTerminal = 1
  /\ isCollapsed = FALSE
  /\ nextTermId = 2
  /\ nTermEvents = 0
  /\ insts = <<NewInst(1, <<1>>, 1)>>
  /\ InitSearchPanel

NextSession ==
  \/ \E id \in 1..MaxTerminals : closeTerminal(id)
  \/ toggleCollapsed
  \/ \E i \in 1..Len(insts) : spawnResolved(i)
  \/ \E i \in 1..Len(insts) : spawnFailed(i)
  \/ \E i \in 1..Len(insts) : listenResolved(i)
  \/ \E i \in 1..Len(insts) : dataHandler(i)
  \/ \E i \in 1..Len(insts) : outputEvent(i)
  \/ \E i \in 1..Len(insts) : resizeObserved(i)

SpecSession == InitSession /\ [][NextSession]_vars

\* ------------------------------------------------- the tab strip
\* The TerminalPanel handlers with up to MaxTerminals tabs; of a Terminal's
\* life only the spawn, the listener registration and the process exit.
NextPanel ==
  \/ spawnTerminal
  \/ \E id \in 1..MaxTerminals : closeTerminal(id)
  \/ \E id \in 1..MaxTerminals : setActiveTerminal(id)
  \/ toggleCollapsed
  \/ \E i \in 1..Len(insts) : spawnResolved(i)
  \/ \E i \in 1..Len(insts) : listenResolved(i)
  \/ \E i \in 1..Len(insts) : closedEvent(i)

SpecPanel == Init /\ [][NextPanel]_vars

\* ------------------------------------------- the legacy polling Terminal
\* The earlier Terminal component polled read_terminal every 50 ms.  Its
\* effect depends on the isReady state and its handlers close over the
\* isReady of the effect run that created them (effectIsReady).  `buffer` is
\* the output the backend holds until the next read_terminal.
NewLegacyInst(term) ==
  [term |-> term, mounted |-> TRUE, pc |-> "spawning", backendId |-> 0,
   isReady |-> FALSE, effectIsReady |-> FALSE, hasCleanup |-> TRUE,
   polling |-> FALSE, observer |-> "observing", disposed |-> FALSE,
   emitted |-> 0, buffer |-> <<>>, displayed |-> <<>>, reads |-> 0,
   typed |-> 0, written |-> <<>>, resized |-> 0, closeCalls |-> 0]

\* the cleanup returned by the legacy effect: close_terminal only if the
\* effect's isReady was true
LegacyCleanup(inst) ==
  [inst EXCEPT
     !.polling = FALSE,
     !.observer = "disconnected",
     !.closeCalls = IF inst.effectIsReady THEN @ + 1 ELSE @,
     !.disposed = TRUE,
     !.hasCleanup = FALSE]

\* spawn_terminal resolved: setIsReady(true), setInterval(read_terminal, 50)
LegacySpawnResolved(inst, id) ==
  [inst EXCEPT
     !.backendId = id,
     !.isReady = IF inst.mounted THEN TRUE ELSE @,
     !.polling = TRUE,
     !.pc = IF inst.mounted THEN "rerender" ELSE "settled"]

\* The render after setIsReady(true) commits: isReady is a dependency, so
\* the cleanup of the first effect run runs; the effect then runs again and
\* returns at once because xtermRef.current is set, registering nothing.
LegacyRerender(inst) == [LegacyCleanup(inst) EXCEPT !.pc = "settled"]

\* one tick of the interval: read_terminal, then xterm.write of what it got
LegacyPoll(inst) ==
  [inst EXCEPT
     !.reads = @ + 1,
     !.displayed = IF inst.disposed THEN @ ELSE @ \o inst.buffer,
     !.buffer = <<>>]

\* legacy xterm.onData handler: write_terminal with the terminalId prop, if
\* the effect's isReady was true
LegacyOnData(inst) ==
  [inst EXCEPT !.typed = @ + 1,
               !.written = IF inst.effectIsReady /\ ~inst.disposed
                           THEN Append(@, inst.typed + 1) ELSE @]

\* legacy handleResize: resize_terminal under the same test
LegacyHandleResize(inst) ==
  [inst EXCEPT !.resized = IF inst.effectIsReady /\ inst.observer = "observing"
                           THEN @ + 1 ELSE @]

\* the process produces its next output payload, held until it is read
LegacyOnOutput(inst) ==
  [inst EXCEPT !.emitted = @ + 1,
               !.buffer = Append(@, OutputChunk(inst.emitted + 1))]

\* the legacy component unmounts
LegacyUnmount(inst) ==
  [(IF inst.hasCleanup THEN LegacyCleanup(inst) ELSE inst)
     EXCEPT !.mounted = FALSE,
            !.pc = IF @ = "rerender" THEN "settled" ELSE @]

\* Two panels side by side, each with one tab, given the same commands:
\* insts[1] is the Terminal of Terminal.jsx, insts[2] the legacy one.
InitLegacy ==
  /\ tabs = <<>>
  /\ activeTabIndex = -1
  /\ timer = NoTimer
  /\ pendingOpens = {}
  /\ pendingSaves = {}
  /\ nRequests = 0
  /\ lastOp = Op("init", -1)
  /\ terminals = <<1>>
  /\ activeTerminal = 1
  /\ isCollapsed = FALSE
  /\ nextTermId = 2
  /\ nTermEvents = 0
  /\ insts = <<NewInst(1, <<1>>, 1), NewLegacyInst(1)>>
  /\ InitSearchPanel

legacySpawnResolved ==
  /\ insts[2].pc = "spawning"
  /\ insts' = [insts EXCEPT ![2] = LegacySpawnResolved(@, 1)]
  /\ UNCHANGED <<terminals, activeTerminal, isCollapsed, nextTermId, nTermEvents>>
  /\ UNCHANGED <<editorVars, lastOp>>

legacyRerender ==
  /\ insts[2].pc = "rerender"
  /\ insts[2].mounted
  /\ insts' = [insts EXCEPT ![2] = LegacyRerender(@)]
  /\ UNCHANGED <<terminals, activeTerminal, isCollapsed, nextTermId, nTermEvents>>
  /\ UNCHANGED <<editorVars, lastOp>>

legacyPoll ==
  /\ insts[2].polling
  /\ nTermEvents < MaxTermEvents
  /\ nTermEvents' = nTermEvents + 1
  /\ insts' = [insts EXCEPT ![2] = LegacyPoll(@)]
  /\ UNCHANGED <<terminals, activeTerminal, isCollapsed, nextTermId>>
  /\ UNCHANGED <<editorVars, lastOp>>

\* both components are mounted and their spawn_terminal calls have resolved
BothReady ==
  /\ insts[1].mounted /\ insts[1].backendId # 0
  /\ insts[2].mounted /\ insts[2].backendId # 0

\* the user types the same chunk into both terminals
bothOnData ==
  /\ BothReady
  /\ nTermEvents < MaxTermEvents
  /\ nTermEvents' = nTermEvents + 1
  /\ insts' = <<OnData(insts[1]), LegacyOnData(insts[2])>>
  /\ UNCHANGED <<terminals, activeTerminal, isCollapsed, nextTermId>>
  /\ UNCHANGED <<editorVars, lastOp>>

\* both backend processes produce the same next output payload
bothOnOutput ==
  /\ insts[1].proc = "alive" /\ "output" \in insts[1].listeners
  /\ insts[2].backendId # 0
  /\ nTermEvents < MaxTermEvents
  /\ nTermEvents' = nTermEvents + 1
  /\ insts' = <<OnOutput(insts[1]), LegacyOnOutput(insts[2])>>
  /\ UNCHANGED <<terminals, activeTerminal, isCollapsed, nextTermId>>
  /\ UNCHANGED <<editorVars, lastOp>>

\* both terminal containers are resized
bothResize ==
  /\ BothReady
  /\ nTermEvents < MaxTermEvents
  /\ nTermEvents' = nTermEvents + 1
  /\ insts' = <<IF insts[1].observer = "observing" THEN HandleResize(insts[1]) ELSE insts[1],
                LegacyHandleResize(insts[2])>>
  /\ UNCHANGED <<terminals, activeTerminal, isCollapsed, nextTermId>>
  /\ UNCHANGED <<editorVars, lastOp>>

\* the tab is closed in both panels
bothClose ==
  /\ BothReady
  /\ terminals' = <<>>
  /\ activeTerminal' = 0
  /\ insts' = <<Cleanup(insts[1]), LegacyUnmount(insts[2])>>
  /\ UNCHANGED <<isCollapsed, nextTermId, nTermEvents>>
  /\ UNCHANGED <<editorVars, lastOp>>

NextLegacy ==
  \/ spawnResolved(1)
  \/ listenResolved(1)
  \/ legacySpawnResolved
  \/ legacyRerender
  \/ legacyPoll
  \/ bothOnData
  \/ bothOnOutput
  \/ bothResize
  \/ bothClose

SpecLegacy == InitLegacy /\ [][NextLegacy]_vars

\* ================================================================ claims

Min(a, b) == IF a <= b THEN a ELSE b

\* C1: an undo sets the active session's content to the top of its
\* undoStack, and a redo applied to the state the undo produced gives back
\* the content, undoStack and redoStack the session had before the undo.
C1_UndoRedoRoundTrip ==
  [][handleUndo =>
       LET before == ActiveTabOf(tabs, activeTabIndex)
           undone == ActiveTabOf(tabs', activeTabIndex')
           redone == RedoneTab(undone)
       IN /\ undone.content = Last(before.undoStack)
          /\ Len(undone.redoStack) # 0
          /\ redone.content = before.content
          /\ redone.undoStack = before.undoStack
          /\ redone.redoStack = before.redoStack]_vars

\* C1 witness: an undo has just changed the content of a session whose
\* history came from edits committed by the timer.
C1_Witness ==
  /\ lastOp.op = "undo"
  /\ nRequests > 0
  /\ HasActiveTab(tabs, activeTabIndex)
  /\ Len(ActiveTabOf(tabs, activeTabIndex).redoStack) # 0
  /\ Last(ActiveTabOf(tabs, activeTabIndex).redoStack)
       # ActiveTabOf(tabs, activeTabIndex).content

\* C2: right after an edit (typing, replaceCurrent, replaceAll) the edited
\* session's redoStack is empty.
C2_RedoEmptyAfterEdit ==
  lastOp.op = "edit" =>
    ActiveTabOf(tabs, activeTabIndex).redoStack = <<>>

DropsOldest(stack, pushed, result) ==
  Len(stack) = UndoLimit => result = Append(Tail(stack), pushed)

C3_TimerDropsOldest ==
  (timerFires /\ tabs' # tabs) =>
    DropsOldest(ActiveTabOf(timer.tabs, timer.idx).undoStack,
                ActiveTabOf(timer.tabs, timer.idx).content,
                ActiveTabOf(tabs', timer.idx).undoStack)

C3_UndoDropsOldest ==
  handleUndo =>
    DropsOldest(ActiveTabOf(tabs, activeTabIndex).redoStack,
                ActiveTabOf(tabs, activeTabIndex).content,
                ActiveTabOf(tabs', activeTabIndex).redoStack)

C3_RedoDropsOldest ==
  handleRedo =>
    DropsOldest(ActiveTabOf(tabs, activeTabIndex).undoStack,
                ActiveTabOf(tabs, activeTabIndex).content,
                ActiveTabOf(tabs', activeTabIndex).undoStack)

\* C3: no stack ever holds more than 50 entries, and a push onto a full
\* stack (timer commit, undo, redo) drops the oldest entry.
C3_StacksCapped ==
  /\ [](\A k \in 1..Len(tabs) :
          Len(tabs[k].undoStack) <= UndoLimit /\ Len(tabs[k].redoStack) <= UndoLimit)
  /\ [][C3_TimerDropsOldest /\ C3_UndoDropsOldest /\ C3_RedoDropsOldest]_vars

\* C3 witness: a timer commit onto a full undoStack has evicted the oldest
\* snapshot (the stack is full and no longer starts with the first entry).
C3_Witness ==
  /\ lastOp.op = "timer"
  /\ Len(tabs) = 1
  /\ Len(tabs[1].undoStack) = UndoLimit
  /\ tabs[1].undoStack[1] # HistEntry(1)

\* C6: activeTabIndex is within [-1, Len(tabs)-1] and is -1 exactly when no
\* tab is open.
C6_ActiveIndexInRange ==
  /\ activeTabIndex >= -1
  /\ activeTabIndex <= Len(tabs) - 1
  /\ (activeTabIndex = -1) <=> (Len(tabs) = 0)

\* C7: closing a tab other than the active one leaves activeTabIndex on the
\* tab with the same path: one less when the closed index is below it,
\* unchanged when the closed index is above it.
C7_CloseOtherKeepsActive ==
  [][\A i \in 0..(Len(tabs) - 1) :
       (handleCloseTab(i) /\ HasActiveTab(tabs, activeTabIndex) /\ i # activeTabIndex)
       => /\ HasActiveTab(tabs', activeTabIndex')
          /\ ActiveTabOf(tabs', activeTabIndex') = ActiveTabOf(tabs, activeTabIndex)
          /\ (i < activeTabIndex => activeTabIndex' = activeTabIndex - 1)
          /\ (i > activeTabIndex => activeTabIndex' = activeTabIndex)]_vars

\* C7 witness: a tab below the active one was closed while three tabs were
\* open, and the active index moved left.
C7_Witness ==
  /\ lastOp.op = "closeOther"
  /\ Len(tabs) = 2
  /\ HasActiveTab(tabs, activeTabIndex)
  /\ lastOp.idx <= activeTabIndex

\* C8: closing the active tab at index i of n tabs sets activeTabIndex to
\* min(i, n-2) when n > 1 and to -1 when n = 1, and removes exactly the
\* session at i, keeping the order of the others.
C8_CloseActive ==
  [][\A i \in 0..(Len(tabs) - 1) :
       (handleCloseTab(i) /\ i = activeTabIndex)
       => LET n == Len(tabs) IN
          /\ activeTabIndex' = (IF n = 1 THEN -1 ELSE Min(i, n - 2))
          /\ Len(tabs') = n - 1
          /\ \A k \in 1..(n - 1) : tabs'[k] = (IF k <= i THEN tabs[k] ELSE tabs[k + 1])]_vars

\* C8 witness: the active middle tab of three was closed.
C8_Witness ==
  /\ lastOp.op = "closeActive"
  /\ Len(tabs) = 2
  /\ lastOp.idx = 1
  /\ activeTabIndex = 1

\* C9: no two open tabs have the same path, and when the dialog returns a
\* path that is open, the tab list is unchanged and that tab becomes active.
NoDuplicatePaths ==
  \A j, k \in 1..Len(tabs) : tabs[j].path = tabs[k].path => j = k

C9_OpenExistingActivates ==
  /\ []NoDuplicatePaths
  /\ [][\A po \in pendingOpens, p \in Paths, c \in Contents :
          (handleOpenFileDone(po, p, c) /\ p \in PathsOf(tabs))
          => tabs' = tabs /\ activeTabIndex' = FindIndex(tabs, p)]_vars

C10_TimerOfClosedIsInert ==
  (timerFires /\ ActiveTabOf(timer.tabs, timer.idx).path \notin PathsOf(tabs))
    => tabs' = tabs

C10_SaveOfClosedIsInert ==
  \A ps \in pendingSaves :
    (handleSaveFileDone(ps) /\ ActiveTabOf(ps.tabs, ps.idx).path \notin PathsOf(tabs))
      => tabs' = tabs

\* C10: once a session has been closed, the firing of its timer and the
\* completion of its save leave the tab list as it is.
C10_ClosedSessionStaysClosed ==
  [][C10_TimerOfClosedIsInert /\ C10_SaveOfClosedIsInert]_vars

\* C4: once a session's spawn has resolved, every chunk the user has typed
\* into it, including those typed while it was Spawning, has been passed to
\* write_terminal, in the order typed.
C4_PreReadyInputForwarded ==
  \A i \in 1..Len(insts) :
    insts[i].backendId # 0 => insts[i].written = [k \in 1..insts[i].typed |-> k]

\* C5: an output, closed or error listener of a session runs only while the
\* session's component is mounted (its cleanup has not run).
C5_ListenerRuns(i) ==
  \/ outputEvent(i) /\ "output" \in insts[i].listeners
  \/ errorEvent(i) /\ "error" \in insts[i].listeners
  \/ closedEvent(i) /\ "closed" \in insts[i].listeners

C5_NoCallbackAfterClose ==
  [][\A i \in 1..Len(insts) : C5_ListenerRuns(i) => insts[i].mounted]_vars

\* C11: a failed read during an open (dialog or file-tree click) leaves the
\* tab list, every session's fields, activeTabIndex, the pending timer and
\* the saves in flight as they were.
C11_OpenFailureChangesNothing ==
  [][\A po \in pendingOpens :
       handleOpenFailed(po)
       => /\ tabs' = tabs
          /\ activeTabIndex' = activeTabIndex
          /\ timer' = timer
          /\ pendingSaves' = pendingSaves]_vars

\* C11 witness: an open has just failed while a modified session was open.
C11_Witness ==
  /\ lastOp.op = "openFailed"
  /\ HasActiveTab(tabs, activeTabIndex)
  /\ ActiveTabOf(tabs, activeTabIndex).isModified

\* C12: when the write succeeds, the session that was saved is at its index
\* with isModified false; when it fails, the tab list and activeTabIndex are
\* unchanged and no further save is issued.
C12_SaveOutcome ==
  [][\A ps \in pendingSaves :
       /\ (handleSaveFileDone(ps)
           => /\ HasActiveTab(tabs', ps.idx)
              /\ ActiveTabOf(tabs', ps.idx).path = ActiveTabOf(ps.tabs, ps.idx).path
              /\ ~ActiveTabOf(tabs', ps.idx).isModified)
       /\ (handleSaveFileFailed(ps)
           => /\ tabs' = tabs
              /\ activeTabIndex' = activeTabIndex
              /\ pendingSaves' = pendingSaves \ {ps}
              /\ nRequests' = nRequests)]_vars

\* C12 witness: a save has just succeeded and the saved session is clean.
C12_Witness ==
  /\ lastOp.op = "saveDone"
  /\ HasActiveTab(tabs, lastOp.idx)
  /\ ~ActiveTabOf(tabs, lastOp.idx).isModified
  /\ activeTabIndex = lastOp.idx

\* C13: an edit sets the active session's content to the new content and its
\* isModified to true in the same step, and leaves its other fields, every
\* other session, the tab order and activeTabIndex unchanged; without an
\* active session no edit step exists.
C13_EditIsSynchronous ==
  /\ [][\A c \in Contents :
          handleTabContentChange(c)
          => /\ HasActiveTab(tabs, activeTabIndex)
             /\ activeTabIndex' = activeTabIndex
             /\ Len(tabs') = Len(tabs)
             /\ \A k \in 1..Len(tabs) :
                  tabs'[k] = (IF k = activeTabIndex + 1
                              THEN [tabs[k] EXCEPT !.content = c, !.isModified = TRUE]
                              ELSE tabs[k])]_vars
  /\ [](~HasActiveTab(tabs, activeTabIndex)
          => \A c \in Contents : ~ENABLED handleTabContentChange(c))

\* C13 witness: an edit has just changed the content of the active one of
\* two sessions.
C13_Witness ==
  /\ lastOp.op = "edit"
  /\ Len(tabs) >= 2
  /\ timer.set
  /\ HasActiveTab(tabs, activeTabIndex)
  /\ ActiveTabOf(tabs, activeTabIndex).content = timer.newContent
  /\ ActiveTabOf(timer.tabs, timer.idx).content # timer.newContent
  /\ ~ActiveTabOf(timer.tabs, timer.idx).isModified

\* C14: one timer is pending at most; an edit replaces whatever timer was
\* pending by the timer of this edit, and the firing of the timer leaves
\* none pending, so a history commit is that of the latest edit.
C14_SingleDebounceTimer ==
  [][/\ \A c \in Contents :
          handleTabContentChange(c)
          => timer' = [set |-> TRUE, tabs |-> tabs, idx |-> activeTabIndex,
                       newContent |-> c]
     /\ (timerFires => ~timer'.set)]_vars

\* C14 witness: an edit has arrived on a session that an earlier edit had
\* modified and whose history holds no commit of that earlier edit.
C14_Witness ==
  /\ lastOp.op = "edit"
  /\ timer.set
  /\ ActiveTabOf(timer.tabs, timer.idx).isModified
  /\ ActiveTabOf(timer.tabs, timer.idx).undoStack = <<>>
  /\ ActiveTabOf(timer.tabs, timer.idx).redoStack = <<>>
  /\ ActiveTabOf(timer.tabs, timer.idx).content # timer.newContent


\* C15: during replaceAll, at the moment a match is spliced the text of the
\* buffer at that match's offset and length is still the text that was
\* matched there, whatever the match set and the replacement length.
C15_ReplaceAllOffsetsIntact ==
  [][handleReplaceAll
     => LET text == EditorText(tabs, activeTabIndex) IN
        \A i \in 1..Len(searchMatches) :
          LET m == searchMatches[i]
              before == ReplacedDownTo(text, searchMatches, i + 1, replaceText)
          IN Substring(before, m.index, m.index + m.length)
               = Substring(text, m.index, m.index + m.length)]_vars

\* the query occurs in the buffer at 0-based offset k
OccursAt(text, q, k, caseSensitive) ==
  /\ k + Len(q) <= Len(text)
  /\ IF caseSensitive THEN SubSeq(text, k + 1, k + Len(q)) = q
     ELSE ToLowerCase(SubSeq(text, k + 1, k + Len(q))) = ToLowerCase(q)

\* C16: in literal mode the MatchSet lists, in ascending order, exactly the
\* offsets of the buffer at which the query occurs (case-folded unless
\* caseSensitive), overlapping ones included, each with the query's length.
C16_LiteralMatchSet ==
  (showSearch /\ ~searchRegex /\ searchQuery # <<>>)
  => LET text == EditorText(tabs, activeTabIndex) IN
     /\ \A i \in 1..Len(searchMatches) :
          /\ searchMatches[i].length = Len(searchQuery)
          /\ OccursAt(text, searchQuery, searchMatches[i].index, searchCaseSensitive)
     /\ \A k \in 0..(Len(text) - 1) :
          OccursAt(text, searchQuery, k, searchCaseSensitive)
          => \E i \in 1..Len(searchMatches) : searchMatches[i].index = k
     /\ \A i \in 1..(Len(searchMatches) - 1) :
          searchMatches[i].index < searchMatches[i + 1].index

\* C17: while regex mode is on and the pattern does not compile, the
\* MatchSet is empty and currentMatchIndex is -1, and the step that made the
\* pattern invalid left the tab list, activeTabIndex and the timer as they
\* were.
C17_InvalidPatternIsEmpty ==
  /\ []((showSearch /\ searchRegex /\ ~RegexCompiles(searchQuery))
          => (searchMatches = <<>> /\ currentMatchIndex = -1))
  /\ [][(searchRegex' /\ ~RegexCompiles(searchQuery')
           /\ (~searchRegex \/ RegexCompiles(searchQuery)))
        => (tabs' = tabs /\ activeTabIndex' = activeTabIndex /\ timer' = timer)]_vars

\* C17 witness: regex mode is on over a non-empty buffer with the pattern
\* "(", which does not compile.
C17_Witness ==
  /\ showSearch
  /\ searchRegex
  /\ searchQuery = <<"(">>
  /\ EditorText(tabs, activeTabIndex) # <<>>
  /\ lastOp.op = "searchInput"
  /\ searchMatches = <<>>

\* C18: with n > 0 matches, next() and previous() give an index in 0..n-1;
\* next() goes from n-1 to 0, previous() goes from 0 and from -1 to n-1.
C18_CyclicNavigation ==
  [][/\ (handleFindNext
         => /\ currentMatchIndex' \in 0..(Len(searchMatches) - 1)
            /\ (currentMatchIndex = Len(searchMatches) - 1 => currentMatchIndex' = 0))
     /\ (handleFindPrevious
         => /\ currentMatchIndex' \in 0..(Len(searchMatches) - 1)
            /\ (currentMatchIndex \in {0, -1}
                  => currentMatchIndex' = Len(searchMatches) - 1))]_vars

\* C19: after replaceCurrent and the recomputation of the MatchSet,
\* currentMatchIndex is -1 if the replaced match was the last one, and
\* otherwise the index it had, clamped to the new MatchSet.
C19_ReplaceKeepsIndex ==
  [][handleReplace
     => currentMatchIndex' =
          (IF currentMatchIndex = Len(searchMatches) - 1 THEN -1
           ELSE Min(currentMatchIndex, Len(searchMatches') - 1))]_vars

\* C20: replaceAll changes the buffer by one edit, and after the
\* recomputation of the MatchSet currentMatchIndex is -1.
C20_ReplaceAllResetsIndex ==
  [][handleReplaceAll
     => (nRequests' = nRequests + 1 /\ currentMatchIndex' = -1)]_vars

\* the two examples of literal search given with C16
C16_Examples ==
  /\ LiteralMatches(<<"A", "b">>, <<"a", "b", "A", "B">>, FALSE)
       = << [index |-> 0, length |-> 2], [index |-> 2, length |-> 2] >>
  /\ LiteralMatches(<<"a", "a">>, <<"a", "a", "a">>, FALSE)
       = << [index |-> 0, length |-> 2], [index |-> 1, length |-> 2] >>

\* a sequence of chunk numbers in the order the chunks were produced
InOrder(seq) == \A j, k \in 1..Len(seq) : j < k => seq[j] < seq[k]

\* the numbers of the output payloads on a session's display, as displayed
DisplayedOutputs(inst) ==
  LET outs == SelectSeq(inst.displayed, LAMBDA d : d.kind = "output")
  IN [k \in 1..Len(outs) |-> outs[k].n]

Listed(id) == \E k \in 1..Len(terminals) : terminals[k] = id

\* C22: once a terminal tab has been closed and the spawn and listener
\* registrations its component started have completed, close_terminal has
\* been issued for the process spawned for it, no output, closed or error
\* listener is left registered and its resize observer is not observing.
C22_CloseReleasesResources ==
  \A i \in 1..Len(insts) :
    (~Listed(insts[i].term) /\ ~insts[i].mounted /\ insts[i].pc = "ready")
    => /\ insts[i].closeCalls = 1
       /\ insts[i].proc # "alive"
       /\ insts[i].listeners = {}
       /\ insts[i].observer # "observing"

\* C23: a close of a terminal id that is no longer in the tab list (the
\* closed listener of an instance whose tab is gone calls onClose) leaves
\* the list and activeTerminal as they were, and close_terminal is issued at
\* most once for a backend id.
C23_CloseIsIdempotent ==
  /\ [](\A i \in 1..Len(insts) : insts[i].closeCalls <= 1)
  /\ [][\A i \in 1..Len(insts) :
         (closedEvent(i) /\ "closed" \in insts[i].listeners /\ ~Listed(insts[i].term))
         => /\ terminals' = terminals
            /\ activeTerminal' = activeTerminal]_vars

\* C24: when the closed listener of a Ready session (mounted, its listeners
\* registered) runs, the session leaves the tab list and activeTerminal
\* afterwards names a listed session or none.
C24_BackendExitClosesTab ==
  [][\A i \in 1..Len(insts) :
       (closedEvent(i) /\ insts[i].mounted /\ insts[i].pc = "ready")
       => /\ \A k \in 1..Len(terminals') : terminals'[k] # insts[i].term
          /\ \/ activeTerminal' = 0
             \/ \E k \in 1..Len(terminals') : terminals'[k] = activeTerminal']_vars

\* the backend processes of the sessions other than `id` are as they were
OtherProcessesUntouched(id) ==
  \A j \in 1..Len(insts) : insts[j].term # id => insts'[j].proc = insts[j].proc

\* C25: a close of one session, by the tab's close button or by the closed
\* listener, leaves the tab list equal to the list before without that
\* session (the others stay, in order, and no closed session comes back) and
\* leaves every other session's backend process as it was.
C25_CloseRemovesExactlyOne ==
  [][/\ \A id \in 1..MaxTerminals :
          closeTerminal(id)
          => /\ terminals' = WithoutTerminal(terminals, id)
             /\ OtherProcessesUntouched(id)
     /\ \A i \in 1..Len(insts) :
          (closedEvent(i) /\ "closed" \in insts[i].listeners)
          => /\ terminals' = WithoutTerminal(terminals, insts[i].term)
             /\ OtherProcessesUntouched(insts[i].term)]_vars

\* position of a listed session in the tab order
PositionOf(ts, id) == CHOOSE k \in 1..Len(ts) : ts[k] = id

\* the session the claim promotes when the active session `id` is closed:
\* the one that followed it, else the one that preceded it, else none
PromotedAfterClose(ts, id) ==
  LET k == PositionOf(ts, id)
  IN IF k < Len(ts) THEN ts[k + 1]
     ELSE IF k > 1 THEN ts[k - 1]
     ELSE 0

\* C26: closing the active session makes the session after it active, or
\* the one before it if it was last, or none if it was alone; closing another
\* session leaves activeTerminal unchanged.
C26_ClosePromotesNext ==
  [][\A id \in 1..MaxTerminals :
       closeTerminal(id)
       => activeTerminal' = IF activeTerminal = id
                            THEN PromotedAfterClose(terminals, id)
                            ELSE activeTerminal]_vars

\* close_terminal is issued for instance j, or its process is killed, in
\* this step
ProcessClosedInStep(j) ==
  \/ insts'[j].closeCalls > insts[j].closeCalls
  \/ insts[j].proc = "alive" /\ insts'[j].proc = "killed"

\* a Terminal is mounted in this step for a tab that already had one
ReplacementSpawnedInStep ==
  \E j \in (Len(insts) + 1)..Len(insts') :
    \E k \in 1..Len(insts) : insts[k].term = insts'[j].term

\* C27: a session's backend process is closed only by the close of its own
\* tab or after its own process exit; switching the active terminal,
\* collapsing or expanding the panel and spawning another terminal close no
\* process and mount no replacement for a session.
C27_ProcessOutlivesPanelActions ==
  [][/\ \A j \in 1..Len(insts) :
          ProcessClosedInStep(j) => (closeTerminal(insts[j].term) \/ closedEvent(j))
     /\ (toggleCollapsed \/ spawnTerminal \/ \E id \in 1..MaxTerminals : setActiveTerminal(id))
          => ~ReplacementSpawnedInStep]_vars

ShowsNotice(inst, kind) ==
  \E k \in 1..Len(inst.displayed) : inst.displayed[k].kind = kind

\* The status of a session as its component has observed it: Errored after
\* a failed spawn or an error event it displayed, Closed after its cleanup
\* ran, Ready once the backend id is stored, Spawning before.
Status(inst) ==
  IF inst.pc = "failed" \/ ShowsNotice(inst, "error") THEN "Errored"
  ELSE IF ~inst.mounted THEN "Closed"
  ELSE IF inst.backendId # 0 THEN "Ready"
  ELSE "Spawning"

\* C28: Closed and Errored are final: for a session that is Closed or
\* Errored (after a spawn failure, an error event or a close) no step
\* passes a chunk to write_terminal or issues resize_terminal.
C28_ClosedAndErroredAreFinal ==
  [][\A i \in 1..Len(insts) :
       Status(insts[i]) \in {"Closed", "Errored"}
       => /\ insts'[i].written = insts[i].written
          /\ insts'[i].resized = insts[i].resized]_vars

\* C29: a session whose spawn call failed shows the failure message, and
\* nothing else, on its own display; no chunk typed into it is passed to
\* write_terminal, no resize_terminal and no close_terminal is issued for
\* it, it has no backend id, and its spawn is never started again.
C29_SpawnFailureIsFinal ==
  /\ [](\A i \in 1..Len(insts) :
         /\ ShowsNotice(insts[i], "spawnFailed") <=> insts[i].pc = "failed"
         /\ insts[i].pc = "failed"
            => /\ insts[i].displayed = <<Notice("spawnFailed")>>
               /\ insts[i].backendId = 0
               /\ insts[i].written = <<>>
               /\ insts[i].resized = 0
               /\ insts[i].closeCalls = 0)
  /\ [][\A i \in 1..Len(insts) :
         insts[i].pc = "failed" => insts'[i].pc = "failed"]_vars

\* C29 witness: the user typed into a session whose spawn had failed and
\* then closed its tab.
C29_Witness ==
  \E i \in 1..Len(insts) :
    /\ insts[i].pc = "failed"
    /\ insts[i].typed > 0
    /\ ~insts[i].mounted
    /\ ~Listed(insts[i].term)

\* the id a design passes to write_terminal, resize_terminal and
\* close_terminal: the id spawn_terminal returned, or the tab's own id
EventCallId(inst) == [from |-> "spawn_terminal", id |-> inst.backendId]

LegacyCallId(inst) == [from |-> "terminalId", id |-> inst.term]

BackendCalls(inst) == Len(inst.written) + inst.resized + inst.closeCalls

\* C30: given the same input, resize and close commands and the same
\* backend output, the legacy polling Terminal and the event-subscription
\* Terminal have issued the same write_terminal, resize_terminal and
\* close_terminal calls, with the id returned by spawn_terminal, and have
\* written the same output to the display, up to output the legacy design
\* will still read at its next poll.
C30_LegacyMatchesEvents ==
  /\ insts[2].written = insts[1].written
  /\ insts[2].resized = insts[1].resized
  /\ insts[2].closeCalls = insts[1].closeCalls
  /\ BackendCalls(insts[2]) > 0 => LegacyCallId(insts[2]) = EventCallId(insts[1])
  /\ \/ insts[2].displayed = insts[1].displayed
     \/ insts[2].polling /\ insts[2].displayed \o insts[2].buffer = insts[1].displayed

\* C31: Escape pressed while the search panel is open is intercepted and
\* closes the panel; Escape pressed while it is closed, which is no chord,
\* is not intercepted; and a key that is no chord changes no state.
C31_ChordsDispatch ==
  /\ [](lastOp.op = "escapeSearchOpen" => lastOp.idx = 1 /\ ~showSearch)
  /\ [](lastOp.op = "escapeSearchClosed" => lastOp.idx = 0)
  /\ [][keyOther => UNCHANGED <<editorVars, termVars>>]_vars

\* C32: the firing of the debounce timer leaves activeTabIndex, the number
\* and order of the tabs, every session's path, content and isModified, and
\* every field of the sessions other than the edited one as they were just
\* before it fired.
C32_TimerChangesOnlyStacks ==
  [][timerFires
     => /\ activeTabIndex' = activeTabIndex
        /\ Len(tabs') = Len(tabs)
        /\ \A k \in 1..Len(tabs) :
             /\ tabs'[k].path = tabs[k].path
             /\ tabs'[k].content = tabs[k].content
             /\ tabs'[k].isModified = tabs[k].isModified
             /\ k # timer.idx + 1 => tabs'[k] = tabs[k]]_vars

\* C33: in a session that has no history yet, the timer that ends a burst
\* of edits (the last of which changed the content) pushes exactly one
\* snapshot, the content the session had before the first edit of the burst.
C33_BurstPushesPreBurstContent ==
  [][(/\ timerFires
      /\ tabs[1].undoStack = <<>>
      /\ tabs[1].redoStack = <<>>
      /\ timer.newContent # ActiveTabOf(timer.tabs, timer.idx).content)
     => tabs'[1].undoStack = <<BurstBase>>]_vars

\* the session whose history commit the pending timer holds
TimerPath == ActiveTabOf(timer.tabs, timer.idx).path

\* C34: an edit to one session leaves the pending history commit of
\* another session pending, with the snapshot it was going to push.
C34_EditKeepsOtherSessionsTimer ==
  [][\A c \in Contents :
       (/\ handleTabContentChange(c)
        /\ timer.set
        /\ timer.newContent # ActiveTabOf(timer.tabs, timer.idx).content
        /\ TimerPath # ActiveTabOf(tabs, activeTabIndex).path)
       => /\ timer'.set
          /\ ActiveTabOf(timer'.tabs, timer'.idx).path = TimerPath
          /\ ActiveTabOf(timer'.tabs, timer'.idx).content
               = ActiveTabOf(timer.tabs, timer.idx).content]_vars

\* C35: when the read of a clicked file that is not open completes, every
\* tab that was open is still open, the file is open too, and it is the
\* active tab; so two reads that were in flight together leave both files
\* open with the one that completed last active.
C35_ConcurrentOpensBothStay ==
  [][\A po \in pendingOpens, c \in Contents :
       (handleFileClickDone(po, c) /\ po.path \notin PathsOf(tabs))
       => /\ PathsOf(tabs') = PathsOf(tabs) \cup {po.path}
          /\ HasActiveTab(tabs', activeTabIndex')
          /\ ActiveTabOf(tabs', activeTabIndex').path = po.path]_vars

\* C36: when a save completes, the session that was saved has its
\* isModified flag cleared and nothing else differs from the state just
\* before the completion: every session's content and stacks, the tab list
\* and the active index are kept.
C36_SaveDoneOnlyClearsModified ==
  [][\A ps \in pendingSaves :
       handleSaveFileDone(ps)
       => /\ activeTabIndex' = activeTabIndex
          /\ Len(tabs') = Len(tabs)
          /\ \A k \in 1..Len(tabs) :
               tabs'[k] = IF tabs[k].path = ActiveTabOf(ps.tabs, ps.idx).path
                          THEN [tabs[k] EXCEPT !.isModified = FALSE]
                          ELSE tabs[k]]_vars

\* the entries a session holds on its two stacks together
HistorySize(tab) == Len(tab.undoStack) + Len(tab.redoStack)

\* C37: the two stacks of a session never hold more than 50 entries
\* together, so an undo or a redo always grows the stack it pushes on by
\* one entry and keeps every entry that stack held (the cap evicts nothing
\* there).
C37_HistorySizeAtMostLimit ==
  /\ [](\A k \in 1..Len(tabs) : HistorySize(tabs[k]) <= UndoLimit)
  /\ [][/\ handleUndo =>
             ActiveTabOf(tabs', activeTabIndex).redoStack
               = Append(ActiveTabOf(tabs, activeTabIndex).redoStack,
                        ActiveTabOf(tabs, activeTabIndex).content)
        /\ handleRedo =>
             ActiveTabOf(tabs', activeTabIndex).undoStack
               = Append(ActiveTabOf(tabs, activeTabIndex).undoStack,
                        ActiveTabOf(tabs, activeTabIndex).content)]_vars

\* C37 witness: a redo has just filled the undoStack to the limit again
\* after a commit had evicted the oldest snapshot.
C37_Witness ==
  /\ lastOp.op = "redo"
  /\ Len(tabs) = 1
  /\ Len(tabs[1].undoStack) = UndoLimit
  /\ tabs[1].undoStack[1] # HistEntry(1)

\* the MatchSet is the one of the current buffer, query and options
C38_MatchSetFresh ==
  searchMatches = SearchResult(searchQuery, EditorText(tabs, activeTabIndex),
                               searchCaseSensitive, searchRegex, showSearch).matches

\* every match lies inside the buffer
C38_MatchesInBuffer ==
  \A k \in 1..Len(searchMatches) :
    /\ searchMatches[k].index >= 0
    /\ searchMatches[k].index + searchMatches[k].length
         <= Len(EditorText(tabs, activeTabIndex))

\* currentMatchIndex is -1 or an index into the MatchSet
C38_IndexValid ==
  currentMatchIndex = -1
    \/ (currentMatchIndex >= 0 /\ currentMatchIndex < Len(searchMatches))

\* C38: while the search panel is open (its commands can be dispatched), the
\* MatchSet is the one computed from the active buffer with the current
\* query and options, every match ends inside the buffer, and
\* currentMatchIndex is -1 or a valid index.
C38_SearchStateConsistent ==
  showSearch => C38_MatchSetFresh /\ C38_MatchesInBuffer /\ C38_IndexValid

\* C39: the regex loop of the recompute ends: every iteration that finds a
\* match moves regex.lastIndex forward, so the loop pushes at most one
\* match per position of the buffer (and one at its end).
C39_RegexLoopTerminates ==
  /\ [][execMatch => regexScan'.lastIndex > regexScan.lastIndex]_vars
  /\ [](regexScan.running =>
          Len(regexScan.matches) <= Len(EditorText(tabs, activeTabIndex)) + 1)

\* C40: activeTerminal is null exactly when there is no terminal tab, and
\* otherwise it is the id of one of the tabs.
C40_ActiveTerminalListed ==
  /\ (activeTerminal = 0) <=> (terminals = <<>>)
  /\ activeTerminal # 0 => \E k \in 1..Len(terminals) : terminals[k] = activeTerminal

====
